---- MODULE Spec2Model ----
(***************************************************************************)
(* Selector identity and result correlation of the Playwright test-tool    *)
(* adapter (playwrightx/utils.ts, playwrightx/parser.ts, executor).        *)
(*                                                                         *)
(* JavaScript strings are modelled as sequences of one-character strings,  *)
(* so that indexOf / substring / replace / encodeURIComponent /            *)
(* decodeURIComponent are computed character by character.                 *)
(***************************************************************************)
EXTENDS Integers, Sequences, FiniteSets, TLC

VARIABLES
  pc,        \* position of the modelled call, or of runTestCase's main flow
  args,      \* arguments of the call, or the task file and the environment
  ret,       \* value returned by the call, or the locals of runTestCase
  groups,    \* runTestCase: the entries of caseLists not yet completed
  sink,      \* the reporting sink: the results handed to the reporter, in order
  running,   \* RUNNING records of un-awaited createRunningTestResults calls
             \* that are not yet handed to the reporter, one queue per call
  inflight   \* number of runner commands started and not yet exited

vars == <<pc, args, ret, groups, sink, running, inflight>>

runVars == <<groups, sink, running, inflight>>

\* the state of the run variables while no task is run
RunIdle == groups = <<>> /\ sink = <<>> /\ running = <<>> /\ inflight = 0

(***************************************************************************)
(* Bounds of the model                                                     *)
(***************************************************************************)
MaxUrlLen == 4

(***************************************************************************)
(* JavaScript string primitives                                            *)
(***************************************************************************)
\* all sequences over alphabet A of length 0..n
StringsUpTo(A, n) == UNION {[1..k -> A] : k \in 0..n}

\* String.prototype.indexOf(ch): 0-based index of the first ch, -1 if none
indexOf(s, ch) ==
  IF \E i \in 1..Len(s) : s[i] = ch
  THEN (CHOOSE i \in 1..Len(s) : s[i] = ch /\ \A j \in 1..(i-1) : s[j] # ch) - 1
  ELSE -1

\* String.prototype.substring(from[, to]) with 0-based, end-exclusive indices
substring(s, from, to) == SubSeq(s, from + 1, to)

substringFrom(s, from) == SubSeq(s, from + 1, Len(s))

\* true when sub occurs in s at 1-based position i
OccursAt(s, sub, i) ==
  /\ i >= 1
  /\ i + Len(sub) - 1 <= Len(s)
  /\ \A k \in 1..Len(sub) : s[i + k - 1] = sub[k]

\* String.prototype.includes(sub)
includes(s, sub) == \E i \in 1..(Len(s) + 1) : OccursAt(s, sub, i)

\* String.prototype.replace(pattern, "") with a string pattern: removes the
\* first occurrence of pattern only
replaceFirst(s, pattern) ==
  IF includes(s, pattern)
  THEN LET i == CHOOSE i \in 1..(Len(s) + 1) :
                  /\ OccursAt(s, pattern, i)
                  /\ \A j \in 1..(i-1) : ~OccursAt(s, pattern, j)
       IN SubSeq(s, 1, i - 1) \o SubSeq(s, i + Len(pattern), Len(s))
  ELSE s

RECURSIVE Flatten(_)
\* concatenation of a sequence of strings
Flatten(ss) == IF ss = <<>> THEN <<>> ELSE Head(ss) \o Flatten(Tail(ss))

RECURSIVE join(_, _)
\* Array.prototype.join(sep)
join(ss, sep) ==
  IF ss = <<>> THEN <<>>
  ELSE IF Len(ss) = 1 THEN ss[1]
  ELSE ss[1] \o sep \o join(Tail(ss), sep)

\* number of occurrences of the character ch in s
CountChar(s, ch) == Cardinality({i \in 1..Len(s) : s[i] = ch})

(***************************************************************************)
(* encodeURIComponent / decodeURIComponent                                 *)
(***************************************************************************)
\* the hexadecimal digits that occur in the model's alphabet
HexDigits == {"0", "2", "3", "5", "6", "7", "C", "D", "F"}

\* characters encodeURIComponent leaves alone (the model's share of
\* A-Z a-z 0-9 - _ . ! ~ * ' ( ))
Unreserved == {"x", "y", "z", ".", "0", "2", "3", "5", "6", "7", "C", "D", "F"}

\* the percent escape of one character
EscapeOf(c) ==
  CASE c = " " -> <<"%", "2", "0">>
    [] c = "%" -> <<"%", "2", "5">>
    [] c = "&" -> <<"%", "2", "6">>
    [] c = "/" -> <<"%", "2", "F">>
    [] c = "=" -> <<"%", "3", "D">>
    [] c = "?" -> <<"%", "3", "F">>
    [] c = "|" -> <<"%", "7", "C">>
    [] OTHER   -> <<c>>

RECURSIVE encodeURIComponent(_)
encodeURIComponent(s) ==
  IF s = <<>> THEN <<>>
  ELSE (IF Head(s) \in Unreserved THEN <<Head(s)>> ELSE EscapeOf(Head(s)))
       \o encodeURIComponent(Tail(s))

\* the character a well-formed escape %h1h2 below 0x80 stands for
UnescapeOf(h1, h2) ==
  CASE h1 = "2" /\ h2 = "0" -> " "
    [] h1 = "2" /\ h2 = "5" -> "%"
    [] h1 = "2" /\ h2 = "6" -> "&"
    [] h1 = "2" /\ h2 = "F" -> "/"
    [] h1 = "3" /\ h2 = "D" -> "="
    [] h1 = "3" /\ h2 = "F" -> "?"
    [] h1 = "7" /\ h2 = "C" -> "|"
    [] h1 = "3" /\ h2 \in {"0", "2", "3", "5", "6", "7"} -> h2
    [] OTHER -> "\\x" \o h1 \o h2

\* %h1h2 is a complete one-byte escape: two hex digits, code below 0x80 (a
\* lead byte C0..FF needs continuation bytes 80..BF, which no string of the
\* model can spell)
IsEscapeAt(s) ==
  /\ Len(s) >= 3
  /\ s[1] = "%"
  /\ s[2] \in {"0", "2", "3", "5", "6", "7"}
  /\ s[3] \in HexDigits

RECURSIVE decodeThrows(_)
\* decodeURIComponent throws URIError on a malformed escape
decodeThrows(s) ==
  IF s = <<>> THEN FALSE
  ELSE IF Head(s) = "%"
       THEN IF IsEscapeAt(s) THEN decodeThrows(SubSeq(s, 4, Len(s))) ELSE TRUE
       ELSE decodeThrows(Tail(s))

RECURSIVE decodeURIComponent(_)
\* the value of decodeURIComponent where it does not throw
decodeURIComponent(s) ==
  IF s = <<>> THEN <<>>
  ELSE IF IsEscapeAt(s)
       THEN <<UnescapeOf(s[2], s[3])>> \o decodeURIComponent(SubSeq(s, 4, Len(s)))
       ELSE <<Head(s)>> \o decodeURIComponent(Tail(s))

(***************************************************************************)
(* utils.ts                                                                *)
(***************************************************************************)
QM == "?"

\* mutant of encodeQueryParams: splits at the last '?' instead of the first
encodeQueryParams_lastIndex(url) ==
  LET idxs == {i \in 1..Len(url) : url[i] = QM}
      last == IF idxs = {} THEN -1
              ELSE (CHOOSE i \in idxs : \A j \in idxs : j <= i) - 1
  IN IF last = -1 THEN url
     ELSE substring(url, 0, last) \o <<QM>>
          \o encodeURIComponent(substringFrom(url, last + 1))

encodeQueryParams(url) ==
  LET questionMarkIndex == indexOf(url, QM)
  IN IF questionMarkIndex = -1 THEN url
     ELSE LET baseUrl == substring(url, 0, questionMarkIndex)
              queryString == substringFrom(url, questionMarkIndex + 1)
              encodedQueryString == encodeURIComponent(queryString)
          IN baseUrl \o <<QM>> \o encodedQueryString

(***************************************************************************)
(* Record<string, T[]>: a JavaScript object used as a map.  It is modelled *)
(* as the sequence of its entries in insertion order, which is the order   *)
(* Object.entries and for..of iterate in (no key of the model is an        *)
(* integer index).                                                         *)
(***************************************************************************)
RecKeys(rec) == {rec[i].key : i \in 1..Len(rec)}

RecHas(rec, k) == k \in RecKeys(rec)

RecGet(rec, k) == rec[CHOOSE i \in 1..Len(rec) : rec[i].key = k].value

\* rec[k] = v
RecSet(rec, k, v) ==
  IF RecHas(rec, k)
  THEN [i \in 1..Len(rec) |-> IF rec[i].key = k THEN [key |-> k, value |-> v]
                              ELSE rec[i]]
  ELSE Append(rec, [key |-> k, value |-> v])

\* all sequences over the set S of length 0..n
SeqsUpTo(S, n) == UNION {[1..k -> S] : k \in 0..n}

(***************************************************************************)
(* groupTestCasesByPath                                                    *)
(***************************************************************************)
\* the path and name one selector is split into
SplitSelector(testcase) ==
  LET questionMarkIndex == indexOf(testcase, QM)
  IN IF questionMarkIndex # -1
     THEN [path |-> substring(testcase, 0, questionMarkIndex),
           name |-> substringFrom(testcase, questionMarkIndex + 1)]
     ELSE [path |-> testcase, name |-> <<>>]

\* mutant of SplitSelector: String.prototype.split("?") keeps only the piece
\* between the first and the second '?' as the name
SplitSelector_split(testcase) ==
  LET questionMarkIndex == indexOf(testcase, QM)
  IN IF questionMarkIndex # -1
     THEN LET rest == substringFrom(testcase, questionMarkIndex + 1)
              second == indexOf(rest, QM)
          IN [path |-> substring(testcase, 0, questionMarkIndex),
              name |-> IF second = -1 THEN rest ELSE substring(rest, 0, second)]
     ELSE [path |-> testcase, name |-> <<>>]

\* mutant of groupStep: a repeated name of a path is not pushed again
groupStep_dedup(groupedTestCases, testcase) ==
  LET sp == SplitSelector(testcase)
      cur == IF RecHas(groupedTestCases, sp.path)
             THEN RecGet(groupedTestCases, sp.path) ELSE <<>>
  IN IF \E i \in 1..Len(cur) : cur[i] = sp.name
     THEN RecSet(groupedTestCases, sp.path, cur)
     ELSE RecSet(groupedTestCases, sp.path, Append(cur, sp.name))

\* the body of the forEach callback
groupStep(groupedTestCases, testcase) ==
  LET sp == SplitSelector(testcase)
      init == IF ~RecHas(groupedTestCases, sp.path)
              THEN RecSet(groupedTestCases, sp.path, <<>>)
              ELSE groupedTestCases
  IN RecSet(init, sp.path, Append(RecGet(init, sp.path), sp.name))

RECURSIVE groupFrom(_, _)
groupFrom(groupedTestCases, testcases) ==
  IF testcases = <<>> THEN groupedTestCases
  ELSE groupFrom(groupStep(groupedTestCases, Head(testcases)), Tail(testcases))

groupTestCasesByPath(testcases) == groupFrom(<<>>, testcases)

(***************************************************************************)
(* The runner's JSON report (interfaces Data, Suite, Spec, Test, Result).  *)
(* An optional field f is a pair hasF / f: hasF is FALSE when the field is *)
(* absent (undefined), and an absent list is written <<>>.                 *)
(***************************************************************************)
MkResult(status, hasErrors, message, startTime, duration) ==
  [status |-> status, hasErrors |-> hasErrors, message |-> message,
   startTime |-> startTime, duration |-> duration]

MkTest(results) == [results |-> results]

MkSpec(title, file, hasTests, tests) ==
  [title |-> title, file |-> file, hasTests |-> hasTests, tests |-> tests]

MkSuite(title, file, specs, hasSuites, suites) ==
  [title |-> title, file |-> file, specs |-> specs,
   hasSuites |-> hasSuites, suites |-> suites]

RECURSIVE Dedupe(_)
\* Array.from(new Set(xs)): the first occurrence of each element, in order
Dedupe(xs) ==
  IF xs = <<>> THEN <<>>
  ELSE LET front == Dedupe(SubSeq(xs, 1, Len(xs) - 1))
           last == xs[Len(xs)]
       IN IF \E i \in 1..Len(front) : front[i] = last THEN front
          ELSE Append(front, last)

(***************************************************************************)
(* parseTestcase                                                           *)
(***************************************************************************)
\* mutant of specSelector: the selector is pushed without encoding
specSelector_raw(casePath, desc, spec) ==
  casePath \o <<QM>> \o
  (IF desc # <<>> THEN desc \o <<" ">> \o spec.title ELSE spec.title)

\* the selector pushed for one spec of a suite
specSelector(casePath, desc, spec) ==
  LET caseName == spec.title
      testcase == casePath \o <<QM>> \o
                  (IF desc # <<>> THEN desc \o <<" ">> \o caseName ELSE caseName)
  IN encodeQueryParams(testcase)

RECURSIVE parseTestcase(_, _, _)
RECURSIVE parseTestcaseSuites(_, _, _)

\* the testcases the forEach over data.suites collects
parseTestcaseSuites(projPath, suites, rootPath) ==
  IF suites = <<>> THEN <<>>
  ELSE
    LET suite == Head(suites)
        casePath == replaceFirst(rootPath \o <<"/">> \o suite.file,
                                 projPath \o <<"/">>)
        desc == IF suite.title = suite.file THEN <<>> ELSE suite.title
        here ==
          IF suite.hasSuites
          THEN parseTestcase(projPath, suite.suites, rootPath)
          ELSE [i \in 1..Len(suite.specs) |->
                  specSelector(casePath, desc, suite.specs[i])]
    IN here \o parseTestcaseSuites(projPath, Tail(suites), rootPath)

\* parseTestcase(projPath, {config, suites}, rootDir); rootPath is rootDir
\* when given and data.config.rootDir otherwise, the same string at every
\* depth
parseTestcase(projPath, suites, rootPath) ==
  Dedupe(parseTestcaseSuites(projPath, suites, rootPath))

(***************************************************************************)
(* getTestcasePrefix and the TestCase names of collectTestCases            *)
(***************************************************************************)
\* getTestcasePrefix that appends '/' to every non-empty value
getTestcasePrefix_append(envPrefix) ==
  IF envPrefix = <<>> THEN <<>> ELSE envPrefix \o <<"/">>

getTestcasePrefix(envPrefix) ==
  IF envPrefix = <<>> THEN <<>>
  ELSE IF envPrefix[Len(envPrefix)] = "/" THEN envPrefix
  ELSE envPrefix \o <<"/">>

RECURSIVE split(_, _)
\* String.prototype.split(ch): the pieces between the occurrences of ch
split(s, ch) ==
  LET i == indexOf(s, ch)
  IN IF i = -1 THEN <<s>>
     ELSE <<substring(s, 0, i)>> \o split(substringFrom(s, i + 1), ch)

Undefined == <<"u", "n", "d", "e", "f", "i", "n", "e", "d">>

\* the TestCase name collectTestCases builds from one filtered test case
collectedName(testcasePrefix, filteredTestCase) ==
  LET parts == split(filteredTestCase, QM)
      path == parts[1]
      descAndName == IF Len(parts) >= 2 THEN parts[2] ELSE Undefined
  IN testcasePrefix \o path \o <<QM>> \o descAndName

(***************************************************************************)
(* parseTimeStamp, parseErrorCases, parseJsonContent, parseJsonFile        *)
(*                                                                         *)
(* An ISO start time is the instant it denotes, in milliseconds; messages  *)
(* are opaque strings.  A SpecResult keeps result, duration, startTime,    *)
(* endTime and message; content, owner, description, projectID and         *)
(* attachments are never read by a decision of the code and are left out.  *)
(***************************************************************************)
MsPerSecond == 1000

\* [start, end, duration] in seconds
parseTimeStamp(startTime, duration) ==
  <<startTime \div MsPerSecond, (startTime + duration) \div MsPerSecond,
    duration \div MsPerSecond>>

MkSpecResult(result, times, message) ==
  [result |-> result, duration |-> times[3], startTime |-> times[1],
   endTime |-> times[2], message |-> message]

EmptyLogMessage == "log is empty, check that the case passes locally"

RECURSIVE setAllCases(_, _, _)
\* for (const testCase of cases) caseResults[testCase] = [record]
setAllCases(caseResults, cases, record) ==
  IF cases = <<>> THEN caseResults
  ELSE setAllCases(RecSet(caseResults, Head(cases), <<record>>), Tail(cases), record)

RECURSIVE errorLoop(_, _, _, _)
\* for (const error of jsonData.errors) { ... }
errorLoop(caseResults, errors, cases, times) ==
  IF errors = <<>> THEN caseResults
  ELSE errorLoop(setAllCases(caseResults, cases,
                             MkSpecResult("failed", times, Head(errors).message)),
                 Tail(errors), cases, times)

\* mutant of parseErrorCases: the fallback records are built whatever the
\* suites list holds
parseErrorCases_always(jsonData, cases) ==
  LET times == parseTimeStamp(jsonData.stats.startTime, jsonData.stats.duration)
  IN IF Len(jsonData.errors) > 0
     THEN errorLoop(<<>>, jsonData.errors, cases, times)
     ELSE setAllCases(<<>>, cases, MkSpecResult("failed", times, EmptyLogMessage))

parseErrorCases(jsonData, cases) ==
  LET times == parseTimeStamp(jsonData.stats.startTime, jsonData.stats.duration)
  IN IF Len(jsonData.suites) = 0
     THEN IF Len(jsonData.errors) > 0
          THEN errorLoop(<<>>, jsonData.errors, cases, times)
          ELSE setAllCases(<<>>, cases,
                           MkSpecResult("failed", times, EmptyLogMessage))
     ELSE <<>>

handlePath(projPath, filePath) == replaceFirst(filePath, projPath \o <<"/">>)

\* a value of type SpecResult | null
Null == [isNull |-> TRUE]
Some(v) == [isNull |-> FALSE, value |-> v]

RECURSIVE resultLoop(_, _)
\* for (const result of results): specResult is assigned inside the
\* `if (result.errors)` block only (lines 1186-1254)
resultLoop(specResult, results) ==
  IF results = <<>> THEN specResult
  ELSE LET result == Head(results)
           times == parseTimeStamp(result.startTime, result.duration)
           specErrorMsg == result.message
       IN resultLoop(IF result.hasErrors
                     THEN Some(MkSpecResult(result.status, times, specErrorMsg))
                     ELSE specResult,
                     Tail(results))

RECURSIVE testLoop(_, _)
\* for (const test of spec.tests)
testLoop(specResult, tests) ==
  IF tests = <<>> THEN specResult
  ELSE testLoop(resultLoop(specResult, Head(tests).results), Tail(tests))

\* the key of a spec in the result map
specName(projPath, currentRootPath, desc, spec) ==
  handlePath(projPath, currentRootPath \o <<"/">> \o spec.file) \o <<QM>> \o
  (IF desc # <<>> THEN desc \o <<" ">> ELSE <<>>) \o spec.title

\* the body of `for (const spec of suite.specs)`
specStep(caseResults, projPath, currentRootPath, desc, spec) ==
  LET name == specName(projPath, currentRootPath, desc, spec)
  IN IF spec.hasTests
     THEN LET specResult == testLoop(Null, spec.tests)
          IN IF ~RecHas(caseResults, name)
             THEN RecSet(caseResults, name,
                         IF specResult.isNull THEN <<>> ELSE <<specResult.value>>)
             ELSE IF ~specResult.isNull
                  THEN RecSet(caseResults, name,
                              Append(RecGet(caseResults, name), specResult.value))
                  ELSE caseResults
     ELSE caseResults

RECURSIVE specLoop(_, _, _, _, _)
specLoop(caseResults, projPath, currentRootPath, desc, specs) ==
  IF specs = <<>> THEN caseResults
  ELSE specLoop(specStep(caseResults, projPath, currentRootPath, desc, Head(specs)),
                projPath, currentRootPath, desc, Tail(specs))

RECURSIVE parseSuites(_, _, _, _)
\* parseSuites(suites, currentRootPath), threading caseResults; suite.specs
\* is a list in every report of the model, so `if (suite.specs)` is taken
parseSuites(caseResults, projPath, suites, currentRootPath) ==
  IF suites = <<>> THEN caseResults
  ELSE LET suite == Head(suites)
           desc == IF suite.title = suite.file THEN <<>> ELSE suite.title
           own == specLoop(caseResults, projPath, currentRootPath, desc, suite.specs)
           nested == IF suite.hasSuites
                     THEN parseSuites(own, projPath, suite.suites, currentRootPath)
                     ELSE own
       IN parseSuites(nested, projPath, Tail(suites), currentRootPath)

\* data.config.rootDir is a non-empty string in every report of the model
parseJsonContent(projPath, data) ==
  parseSuites(<<>>, projPath, data.suites, data.rootDir)

\* mutant of parseJsonFile: falls back to parseErrorCases when no list of
\* the parsed map holds a record
parseJsonFile_emptyLists(projPath, file, cases) ==
  IF file.kind # "report" THEN [threw |-> TRUE, value |-> <<>>]
  ELSE LET result == parseJsonContent(projPath, file.data)
       IN IF \E i \in 1..Len(result) : Len(result[i].value) > 0
          THEN [threw |-> FALSE, value |-> result]
          ELSE [threw |-> FALSE, value |-> parseErrorCases(file.data, cases)]

\* the file at jsonFile is missing (readFileSync throws), is not JSON
\* (JSON.parse throws) or holds a report
parseJsonFile(projPath, file, cases) ==
  IF file.kind # "report" THEN [threw |-> TRUE, value |-> <<>>]
  ELSE LET result == parseJsonContent(projPath, file.data)
       IN IF Len(result) > 0
          THEN [threw |-> FALSE, value |-> result]
          ELSE [threw |-> FALSE, value |-> parseErrorCases(file.data, cases)]

(***************************************************************************)
(* createTestResults                                                       *)
(*                                                                         *)
(* A TestResult keeps Test.Name, ResultType, Message, StartTime, EndTime   *)
(* and its steps (result type and log level of the single log).  Times are *)
(* instants in milliseconds.  A message is a text followed by an           *)
(* identifier (empty except in the synthetic "no result" message).         *)
(***************************************************************************)
Contains(xs, x) == \E i \in 1..Len(xs) : xs[i] = x

NoResultText == "No test results found for this identifier: "

MkTestResult(name, startTime, endTime, resultType, message, steps) ==
  [Name |-> name, StartTime |-> startTime, EndTime |-> endTime,
   ResultType |-> resultType, Message |-> message, Steps |-> steps]

\* resultOf that fails a result only on the status "failed"
resultOf_onlyFailed(casePrefix, testCase, result) ==
  LET testPath == encodeQueryParams(casePrefix \o testCase)
      startTime == result.startTime * MsPerSecond
      endTime == result.endTime * MsPerSecond
      resultType == IF result.result # "failed" THEN "SUCCEED" ELSE "FAILED"
      level == IF result.result # "failed" THEN "INFO" ELSE "ERROR"
  IN MkTestResult(testPath, startTime, endTime, resultType,
                  [text |-> result.message, id |-> <<>>],
                  <<[ResultType |-> resultType, Level |-> level,
                     StartTime |-> startTime, EndTime |-> endTime]>>)

\* the TestResult built from one SpecResult of the output key testCase
resultOf(casePrefix, testCase, result) ==
  LET testPath == encodeQueryParams(casePrefix \o testCase)
      startTime == result.startTime * MsPerSecond
      endTime == result.endTime * MsPerSecond
      resultType == IF result.result = "passed" THEN "SUCCEED" ELSE "FAILED"
      level == IF result.result = "passed" THEN "INFO" ELSE "ERROR"
  IN MkTestResult(testPath, startTime, endTime, resultType,
                  [text |-> result.message, id |-> <<>>],
                  <<[ResultType |-> resultType, Level |-> level,
                     StartTime |-> startTime, EndTime |-> endTime]>>)

\* isInTestIdentifiers that matches the file of a key in every mode
isInTestIdentifiers_anyMode(testCase, testIdentifiers, fileMode) ==
  \/ Contains(testIdentifiers, testCase)
  \/ Contains(testIdentifiers, split(testCase, QM)[1])

\* isInTestIdentifiers of an output key
isInTestIdentifiers(testCase, testIdentifiers, fileMode) ==
  \/ Contains(testIdentifiers, testCase)
  \/ /\ fileMode
     /\ Contains(testIdentifiers, split(testCase, QM)[1])

RECURSIVE outputResultLoop(_, _, _, _, _)
\* for (const result of results); st is [testResults, referenceFailedTest]
outputResultLoop(st, casePrefix, testCase, isIn, results) ==
  IF results = <<>> THEN st
  ELSE LET testResult == resultOf(casePrefix, testCase, Head(results))
           ref == IF ~isIn /\ testResult.ResultType = "FAILED" /\ st.reference.isNull
                  THEN Some(testResult) ELSE st.reference
           trs == IF isIn THEN Append(st.testResults, testResult)
                  ELSE st.testResults
       IN outputResultLoop([testResults |-> trs, reference |-> ref],
                           casePrefix, testCase, isIn, Tail(results))

RECURSIVE outputLoop(_, _, _, _, _)
\* for (const [testCase, results] of Object.entries(output))
outputLoop(st, output, testIdentifiers, casePrefix, fileMode) ==
  IF output = <<>> THEN st
  ELSE LET testCase == Head(output).key
           isIn == isInTestIdentifiers(testCase, testIdentifiers, fileMode)
       IN outputLoop(outputResultLoop(st, casePrefix, testCase, isIn,
                                      Head(output).value),
                     Tail(output), testIdentifiers, casePrefix, fileMode)

\* hasResult that never finds a result
hasResult_never(testResults, casePrefix, identifier) == "false"

RECURSIVE hasResult(_, _, _)
\* testResults.some(...): "true", "false", or "throw" when decodeURIComponent
\* meets a malformed escape before a match is found
hasResult(testResults, casePrefix, identifier) ==
  IF testResults = <<>> THEN "false"
  ELSE LET stripped == replaceFirst(Head(testResults).Name, casePrefix)
       IN IF decodeThrows(stripped) THEN "throw"
          ELSE IF decodeURIComponent(stripped) = identifier THEN "true"
          ELSE hasResult(Tail(testResults), casePrefix, identifier)

\* the synthetic result of an identifier without result
syntheticResult(casePrefix, identifier, referenceFailedTest) ==
  MkTestResult(encodeQueryParams(casePrefix \o identifier),
               referenceFailedTest.StartTime, referenceFailedTest.EndTime,
               "FAILED", [text |-> NoResultText, id |-> identifier],
               referenceFailedTest.Steps)

RECURSIVE identifierLoop(_, _, _, _)
\* for (const identifier of testIdentifiers); r is [threw, results]
identifierLoop(r, reference, casePrefix, testIdentifiers) ==
  IF testIdentifiers = <<>> \/ r.threw THEN r
  ELSE LET identifier == Head(testIdentifiers)
           has == hasResult(r.results, casePrefix, identifier)
           next ==
             IF has = "throw" THEN [threw |-> TRUE, results |-> <<>>]
             ELSE IF has = "false" /\ ~reference.isNull
                  THEN [r EXCEPT !.results =
                          Append(@, syntheticResult(casePrefix, identifier,
                                                    reference.value))]
                  ELSE r
       IN identifierLoop(next, reference, casePrefix, Tail(testIdentifiers))

\* createTestResults(output, testIdentifiers) under the prefix of
\* getTestcasePrefix() and the file mode of TESTSOLAR_TTP_FILEMODE
createTestResults(output, testIdentifiers, casePrefix, fileMode) ==
  LET st == outputLoop([testResults |-> <<>>, reference |-> Null],
                       output, testIdentifiers, casePrefix, fileMode)
  IN identifierLoop([threw |-> FALSE, results |-> st.testResults],
                    st.reference, casePrefix, testIdentifiers)

(***************************************************************************)
(* generateCommands                                                        *)
(*                                                                         *)
(* The command line is kept as the parts that vary with the arguments: the *)
(* test path given to the runner and the --grep pattern.  The function     *)
(* throws when decodeURIComponent rejects the joined test names.           *)
(***************************************************************************)
\* mutant of generateCommands: the identifiers carry the decoded test names
generateCommands_decoded(casePath, testCases, fileMode) ==
  LET joined == join(testCases, <<"|">>)
      hasGrep == Len(testCases) > 0 /\ ~fileMode
  IN IF hasGrep /\ decodeThrows(joined)
     THEN [threw |-> TRUE, command |-> [hasPath |-> FALSE, path |-> <<>>,
                                        hasGrep |-> FALSE, grep |-> <<>>],
           testIdentifiers |-> <<>>]
     ELSE [threw |-> FALSE,
           command |-> [hasPath |-> Len(testCases) > 0 \/ fileMode,
                        path |-> IF Len(testCases) > 0 \/ fileMode
                                 THEN casePath ELSE <<>>,
                        hasGrep |-> hasGrep,
                        grep |-> IF hasGrep THEN decodeURIComponent(joined)
                                 ELSE <<>>],
           testIdentifiers |->
             [i \in 1..Len(testCases) |->
                casePath \o <<QM>> \o decodeURIComponent(testCases[i])]]

generateCommands(casePath, testCases, fileMode) ==
  LET joined == join(testCases, <<"|">>)
      hasGrep == Len(testCases) > 0 /\ ~fileMode
  IN IF hasGrep /\ decodeThrows(joined)
     THEN [threw |-> TRUE, command |-> [hasPath |-> FALSE, path |-> <<>>,
                                        hasGrep |-> FALSE, grep |-> <<>>],
           testIdentifiers |-> <<>>]
     ELSE [threw |-> FALSE,
           command |-> [hasPath |-> Len(testCases) > 0 \/ fileMode,
                        path |-> IF Len(testCases) > 0 \/ fileMode
                                 THEN casePath ELSE <<>>,
                        hasGrep |-> hasGrep,
                        grep |-> IF hasGrep THEN decodeURIComponent(joined)
                                 ELSE <<>>],
           testIdentifiers |->
             [i \in 1..Len(testCases) |-> casePath \o <<QM>> \o testCases[i]]]

(***************************************************************************)
(* createRunningTestResults and the selector prefix of runTestCase         *)
(***************************************************************************)
\* the RUNNING results built for the names of a path, in order
runningResults(path, names, casePrefix) ==
  [i \in 1..Len(names) |->
     LET fullTestCase == IF names[i] # <<>> THEN path \o <<QM>> \o names[i]
                         ELSE path
     IN MkTestResult(encodeQueryParams(casePrefix \o fullTestCase), 0, 0,
                     "RUNNING", [text |-> "", id |-> <<>>],
                     <<[ResultType |-> "RUNNING", Level |-> "INFO",
                        StartTime |-> 0, EndTime |-> 0]>>)]

(***************************************************************************)
(* new RegExp(`^${testcasePrefix}`): the prefix is read as a pattern.  Of  *)
(* the characters of the model's prefixes, '.' matches any character and   *)
(* '+' repeats the atom before it one or more times (greedy); every other  *)
(* character matches itself.                                               *)
(***************************************************************************)
\* the constructor throws a SyntaxError (nothing to repeat)
regExpThrows(pattern) ==
  \/ pattern # <<>> /\ pattern[1] = "+"
  \/ \E i \in 1..(Len(pattern) - 1) : pattern[i] = "+" /\ pattern[i + 1] = "+"

\* the atoms of a pattern that does not throw
RECURSIVE regExpAtoms(_)
regExpAtoms(pattern) ==
  IF pattern = <<>> THEN <<>>
  ELSE IF Len(pattern) >= 2 /\ pattern[2] = "+"
       THEN <<[ch |-> pattern[1], plus |-> TRUE]>>
            \o regExpAtoms(SubSeq(pattern, 3, Len(pattern)))
       ELSE <<[ch |-> pattern[1], plus |-> FALSE]>> \o regExpAtoms(Tail(pattern))

atomMatches(atom, c) == atom.ch = "." \/ atom.ch = c

\* the positions after a match of atoms that starts at pos, in the order a
\* backtracking matcher finds them
RECURSIVE matchEnds(_, _, _)
RECURSIVE plusEnds(_, _, _, _)
matchEnds(atoms, s, pos) ==
  IF atoms = <<>> THEN <<pos>>
  ELSE IF pos > Len(s) \/ ~atomMatches(atoms[1], s[pos]) THEN <<>>
  ELSE IF atoms[1].plus
       THEN LET run == CHOOSE k \in 1..(Len(s) - pos + 1) :
                         /\ \A j \in 0..(k - 1) : atomMatches(atoms[1], s[pos + j])
                         /\ (pos + k > Len(s) \/ ~atomMatches(atoms[1], s[pos + k]))
            IN plusEnds(Tail(atoms), s, pos, run)
       ELSE matchEnds(Tail(atoms), s, pos + 1)
plusEnds(rest, s, pos, k) ==
  IF k = 0 THEN <<>>
  ELSE matchEnds(rest, s, pos + k) \o plusEnds(rest, s, pos, k - 1)

\* selector.replace(new RegExp(`^${testcasePrefix}`), ""), for a prefix
\* whose pattern does not throw
stripPrefix(selector, testcasePrefix) ==
  IF testcasePrefix # <<>> /\ selector # <<>>
  THEN LET ends == matchEnds(regExpAtoms(testcasePrefix), selector, 1)
       IN IF ends # <<>> THEN SubSeq(selector, ends[1], Len(selector))
          ELSE selector
  ELSE selector

(***************************************************************************)
(* Specification SpecEncode: encodeQueryParams applied to bounded urls     *)
(***************************************************************************)
UrlAlphabet == {"x", "/", "?", " ", "%"}

Urls == StringsUpTo(UrlAlphabet, MaxUrlLen)

InitEncode ==
  /\ pc = "encodeQueryParams"
  /\ args \in {[url |-> u] : u \in Urls}
  /\ ret = <<>>
  /\ RunIdle

EncodeQueryParams ==
  /\ pc = "encodeQueryParams"
  /\ ret' = encodeQueryParams(args.url)
  /\ pc' = "returned"
  /\ UNCHANGED <<args, runVars>>

NextEncode == EncodeQueryParams

SpecEncode == InitEncode /\ [][NextEncode]_vars

\* C6: encodeQueryParams(u) is u when u has no '?'; otherwise it is u up to
\* and including the first '?' followed by the URI-component encoding of the
\* rest: every character of the rest is copied when unreserved and replaced
\* by its percent escape otherwise, so no later '?' survives and an empty
\* rest stays empty.
C6_EncodeQueryParams ==
  (pc = "returned" /\ "url" \in DOMAIN args) =>
    LET u == args.url
        n == CountChar(u, QM)
    IN IF n = 0 THEN ret = u
       ELSE \E k \in 1..Len(u) :
              /\ u[k] = QM
              /\ \A j \in 1..(k-1) : u[j] # QM
              /\ Len(ret) >= k
              /\ SubSeq(ret, 1, k) = SubSeq(u, 1, k)
              /\ SubSeq(ret, k + 1, Len(ret)) =
                   Flatten([i \in 1..(Len(u) - k) |->
                              IF u[k + i] \in Unreserved THEN <<u[k + i]>>
                              ELSE EscapeOf(u[k + i])])
              /\ CountChar(ret, QM) = 1
              /\ (k = Len(u) => ret = u)

\* a url with a second '?' and a space after the first one was encoded
C6_Witness ==
  /\ pc = "returned"
  /\ "url" \in DOMAIN args
  /\ CountChar(args.url, QM) >= 2
  /\ CountChar(args.url, " ") >= 1
  /\ ret # args.url

(***************************************************************************)
(* Specification SpecGroup: groupTestCasesByPath applied to bounded lists  *)
(* of selectors                                                            *)
(***************************************************************************)
MaxSelectors == 3

\* selectors without '?', with an empty name, with an empty path, with a
\* second '?' in the name, of two paths
GroupSelectors ==
  { <<>>, <<"x">>, <<"x", "?">>, <<"x", "?", "y">>, <<"x", "?", "y", "?", "z">>,
    <<"z", "?", "y">>, <<"z">>, <<"?", "y">> }

InitGroup ==
  /\ pc = "groupTestCasesByPath"
  /\ args \in {[testcases |-> t] : t \in SeqsUpTo(GroupSelectors, MaxSelectors)}
  /\ ret = <<>>
  /\ RunIdle

GroupTestCasesByPath ==
  /\ pc = "groupTestCasesByPath"
  /\ ret' = groupTestCasesByPath(args.testcases)
  /\ pc' = "grouped"
  /\ UNCHANGED <<args, runVars>>

NextGroup == GroupTestCasesByPath

SpecGroup == InitGroup /\ [][NextGroup]_vars

\* the text before the first '?' of a selector (all of it when it has none)
BeforeFirstQM(s) ==
  IF CountChar(s, QM) = 0 THEN s
  ELSE SubSeq(s, 1, (CHOOSE k \in 1..Len(s) :
                       s[k] = QM /\ \A j \in 1..(k-1) : s[j] # QM) - 1)

\* the text after the first '?' of a selector (empty when it has none)
AfterFirstQM(s) ==
  IF CountChar(s, QM) = 0 THEN <<>>
  ELSE SubSeq(s, (CHOOSE k \in 1..Len(s) :
                    s[k] = QM /\ \A j \in 1..(k-1) : s[j] # QM) + 1, Len(s))

\* the subsequence of the elements of s that satisfy Keep
RECURSIVE SelectWhere(_, _)
SelectWhere(s, keep) ==
  IF s = <<>> THEN <<>>
  ELSE (IF keep[Head(s)] THEN <<Head(s)>> ELSE <<>>) \o SelectWhere(Tail(s), keep)

RECURSIVE SumLens(_)
SumLens(rec) == IF rec = <<>> THEN 0 ELSE Len(Head(rec).value) + SumLens(Tail(rec))

\* C7: groupTestCasesByPath maps each path (text before the first '?', the
\* whole selector when there is none) to the names (text after the first
\* '?', empty when there is none) of the selectors with that path, in input
\* order and with duplicates; no other key exists, no key occurs twice, and
\* the names over all groups number as many as the input selectors.
C7_GroupByPath ==
  (pc = "grouped") =>
    LET t == args.testcases
        paths == {BeforeFirstQM(t[i]) : i \in 1..Len(t)}
    IN /\ RecKeys(ret) = paths
       /\ \A i, j \in 1..Len(ret) : ret[i].key = ret[j].key => i = j
       /\ \A p \in paths :
            LET idx == SelectWhere([i \in 1..Len(t) |-> i],
                                   [i \in 1..Len(t) |-> BeforeFirstQM(t[i]) = p])
            IN RecGet(ret, p) = [n \in 1..Len(idx) |-> AfterFirstQM(t[idx[n]])]
       /\ SumLens(ret) = Len(t)

\* a list with a repeated selector, a selector without '?' and one with two
\* '?' was grouped into at least two groups
C7_Witness ==
  /\ pc = "grouped"
  /\ Len(ret) >= 2
  /\ \E i, j \in 1..Len(args.testcases) :
       i # j /\ args.testcases[i] = args.testcases[j]
  /\ \E i \in 1..Len(args.testcases) : CountChar(args.testcases[i], QM) = 0
  /\ \E i \in 1..Len(args.testcases) : CountChar(args.testcases[i], QM) = 2

(***************************************************************************)
(* Specification SpecLoad: the list report of the runner is parsed into    *)
(* selectors (parseTestcase) and collectTestCases names the test cases     *)
(***************************************************************************)
MaxSuites == 2

ProjPath == <<"/", "p">>

RootDirs == { <<"/", "p">>, <<"/", "p", "/", "t">> }

FileF == <<"f">>
FileG == <<"g">>

\* spec titles: with a space, with '?', '&' and '=', plain
TitleA == <<"x", " ", "y">>
TitleB == <<"?", "&", "=">>
TitleC == <<"x">>

LoadSpec(title, file) == MkSpec(title, file, FALSE, <<>>)

\* describe blocks nested in a file suite
LoadLeaves(file) ==
  { MkSuite(<<"T">>, file, <<LoadSpec(TitleA, file)>>, FALSE, <<>>),
    MkSuite(<<>>, file, <<LoadSpec(TitleC, file)>>, FALSE, <<>>) }

\* suites of the list report: title equal to the file, another title (the
\* title f of a suite of file g) or the empty title of an anonymous
\* describe; no spec or two; no suites field, an empty one or one nested
\* describe
LoadSuites ==
  { MkSuite(title, file, specs, nested.has, nested.suites) :
      title \in {FileF, <<>>},
      file \in {FileF, FileG},
      specs \in { <<>>, <<LoadSpec(TitleB, FileF), LoadSpec(TitleA, FileF)>> },
      nested \in {[has |-> FALSE, suites |-> <<>>], [has |-> TRUE, suites |-> <<>>]}
                 \cup {[has |-> TRUE, suites |-> <<l>>] : l \in LoadLeaves(FileF)} }

EnvPrefixes == { <<>>, <<"q">> }

InitLoad ==
  /\ pc = "parseTestcase"
  /\ args \in {[projPath |-> ProjPath, rootDir |-> r, suites |-> ss, envPrefix |-> e] :
                 r \in RootDirs, ss \in SeqsUpTo(LoadSuites, MaxSuites),
                 e \in EnvPrefixes}
  /\ ret = [loadCaseResult |-> <<>>, tests |-> <<>>]
  /\ RunIdle

\* collectTestCases, line 78
ParseTestcase ==
  /\ pc = "parseTestcase"
  /\ ret' = [ret EXCEPT !.loadCaseResult =
                parseTestcase(args.projPath, args.suites, args.rootDir)]
  /\ pc' = "collect"
  /\ UNCHANGED <<args, runVars>>

\* collectTestCases, lines 108-115, over the unfiltered list
CollectTests ==
  /\ pc = "collect"
  /\ ret' = [ret EXCEPT !.tests =
               [i \in 1..Len(ret.loadCaseResult) |->
                  collectedName(getTestcasePrefix(args.envPrefix),
                                ret.loadCaseResult[i])]]
  /\ pc' = "loaded"
  /\ UNCHANGED <<args, runVars>>

NextLoad == ParseTestcase \/ CollectTests

SpecLoad == InitLoad /\ [][NextLoad]_vars

RECURSIVE AllSuites(_)
\* every suite of a suite list, at any depth, in document order
AllSuites(suites) ==
  IF suites = <<>> THEN <<>>
  ELSE <<Head(suites)>> \o AllSuites(Head(suites).suites) \o AllSuites(Tail(suites))

\* the path part of the selectors of a suite
SuiteCasePath(projPath, rootDir, suite) ==
  replaceFirst(rootDir \o <<"/">> \o suite.file, projPath \o <<"/">>)

\* the title '<suite title> <spec title>', the spec title alone when the
\* suite title equals the suite file
ClaimedTitle(suite, spec) ==
  IF suite.title = suite.file THEN spec.title
  ELSE suite.title \o <<" ">> \o spec.title

\* the same, the spec title alone also when the suite title is empty
AmendedTitle(suite, spec) ==
  IF suite.title = suite.file \/ suite.title = <<>> THEN spec.title
  ELSE suite.title \o <<" ">> \o spec.title

\* the suites whose specs parseTestcase reads: those without a suites field
ReadSuites(suites) ==
  LET all == AllSuites(suites)
  IN {all[i] : i \in {j \in 1..Len(all) : ~all[j].hasSuites}}

C4_Shape(titleOf(_, _)) ==
  (pc = "loaded") =>
    /\ \A i \in 1..Len(ret.loadCaseResult) :
         LET sel == ret.loadCaseResult[i]
             after == AfterFirstQM(sel)
         IN /\ CountChar(sel, QM) = 1
            /\ \A k \in 1..Len(after) : after[k] \notin {QM, " ", "&", "="}
            /\ \E suite \in ReadSuites(args.suites) :
                 \E n \in 1..Len(suite.specs) :
                   /\ BeforeFirstQM(sel) =
                        SuiteCasePath(args.projPath, args.rootDir, suite)
                   /\ after = encodeURIComponent(titleOf(suite, suite.specs[n]))
            /\ Len(split(sel, QM)) = 2
            /\ ret.tests[i] = getTestcasePrefix(args.envPrefix) \o sel
    /\ Len(ret.tests) = Len(ret.loadCaseResult)

\* C4 as claimed: every selector of parseTestcase has exactly one '?', its
\* part after the '?' is the URI-component encoding of '<suite title> <spec
\* title>' (of the spec title alone when the suite title equals the suite
\* file) without raw '?', space, '&' or '=', its split on '?' has two parts
\* and the reported TestCase name is the prefix followed by the selector.
C4_Claimed == C4_Shape(ClaimedTitle)

\* C4 amended: the same, where the title is the spec title alone also when
\* the suite title is the empty string.
C4_SelectorShape == C4_Shape(AmendedTitle)

\* selectors of a titled suite, of an untitled one and of a suite titled by
\* its file were loaded under a prefix, one from a title with '?', '&', '='
C4_Witness ==
  /\ pc = "loaded"
  /\ args.envPrefix # <<>>
  /\ \E i \in 1..Len(ret.loadCaseResult) :
       AfterFirstQM(ret.loadCaseResult[i]) = encodeURIComponent(TitleB)
  /\ \E i \in 1..Len(ret.loadCaseResult) :
       AfterFirstQM(ret.loadCaseResult[i]) =
         encodeURIComponent(FileF \o <<" ">> \o TitleA)
  /\ \E i \in 1..Len(args.suites) :
       args.suites[i].title = <<>> /\ ~args.suites[i].hasSuites
       /\ args.suites[i].specs # <<>>

RECURSIVE AllSpecSelectors(_, _, _)
\* the selector of every spec of the tree in document order: the specs of a
\* suite, then those of its nested suites
AllSpecSelectors(projPath, rootDir, suites) ==
  IF suites = <<>> THEN <<>>
  ELSE LET suite == Head(suites)
       IN [i \in 1..Len(suite.specs) |->
             SuiteCasePath(projPath, rootDir, suite) \o <<QM>> \o
             encodeURIComponent(AmendedTitle(suite, suite.specs[i]))]
          \o AllSpecSelectors(projPath, rootDir, suite.suites)
          \o AllSpecSelectors(projPath, rootDir, Tail(suites))

\* C5: parseTestcase returns the selector of every spec of the suite tree,
\* at any depth, also of the specs that sit in a suite that has nested
\* suites, without duplicates and in first-occurrence order.
C5_EverySpec ==
  (pc = "loaded") =>
    LET expected == AllSpecSelectors(args.projPath, args.rootDir, args.suites)
        got == ret.loadCaseResult
    IN /\ {got[i] : i \in 1..Len(got)} = {expected[i] : i \in 1..Len(expected)}
       /\ \A i, j \in 1..Len(got) : got[i] = got[j] => i = j
       /\ got = Dedupe(expected)

(***************************************************************************)
(* Specification SpecJson: parseErrorCases, parseJsonContent and           *)
(* parseJsonFile applied to bounded run reports                            *)
(***************************************************************************)
MaxResults == 2

\* results of a test: passed or failed, with or without an errors field
JsonResults ==
  { MkResult("passed", TRUE, "", 1000, 1000),
    MkResult("failed", TRUE, "m1", 2000, 2000),
    MkResult("passed", FALSE, "", 3000, 1000),
    MkResult("failed", FALSE, "m2", 4000, 3000) }

JsonTests == {MkTest(rs) : rs \in SeqsUpTo(JsonResults, MaxResults)}

\* the tests field of a spec: absent, one test, or two tests (a retried
\* project next to a passing one)
JsonTestLists ==
  {[has |-> FALSE, tests |-> <<>>], [has |-> TRUE, tests |-> <<>>]}
  \cup {[has |-> TRUE, tests |-> <<t>>] : t \in JsonTests}
  \cup {[has |-> TRUE,
         tests |-> <<MkTest(<<MkResult("failed", TRUE, "m1", 2000, 2000)>>), t>>] :
          t \in {MkTest(<<>>), MkTest(<<MkResult("passed", FALSE, "", 3000, 1000)>>)}}

JsonLeaf ==
  MkSuite(<<"S">>, FileF,
          <<MkSpec(TitleA, FileF, TRUE,
                   <<MkTest(<<MkResult("passed", TRUE, "", 1000, 1000)>>)>>)>>,
          FALSE, <<>>)

\* suites of a run report: titled by the file or by a describe; no spec or
\* one; with or without a nested describe
JsonSuites ==
  { MkSuite(title, FileF, specs, nested # <<>>, nested) :
      title \in {FileF, <<"S">>},
      specs \in {<<>>} \cup {<<MkSpec(TitleA, FileF, tl.has, tl.tests)>> :
                              tl \in JsonTestLists},
      nested \in {<<>>, <<JsonLeaf>>} }

\* a second top-level suite: the same spec once more, or a spec of file g
JsonSecondSuites ==
  { JsonLeaf,
    MkSuite(<<"S">>, FileF,
            <<MkSpec(TitleA, FileF, TRUE,
                     <<MkTest(<<MkResult("failed", FALSE, "m2", 4000, 3000)>>)>>)>>,
            FALSE, <<>>),
    MkSuite(FileG, FileG, <<MkSpec(TitleC, FileG, TRUE, <<MkTest(<<>>)>>)>>,
            FALSE, <<>>) }

JsonSuiteLists ==
  {<<>>} \cup {<<a>> : a \in JsonSuites}
  \cup {<<a, b>> : a \in JsonSuites, b \in JsonSecondSuites}

JsonErrorLists ==
  { <<>>, <<[message |-> "e1"]>>, <<[message |-> "e1"], [message |-> "e2"]>> }

CaseX == <<"f", "?", "x">>
CaseY == <<"f", "?", "x", "%", "2", "0", "y">>

JsonCaseLists == { <<>>, <<CaseX>>, <<CaseX, CaseY>>, <<CaseY, CaseY>> }

JsonData ==
  { [rootDir |-> <<"/", "p">>, stats |-> [startTime |-> 5000, duration |-> 2000],
     suites |-> ss, errors |-> es] :
      ss \in JsonSuiteLists, es \in JsonErrorLists }

InitJson ==
  /\ pc = "start"
  /\ args \in {[projPath |-> ProjPath, data |-> d, cases |-> cs] :
                 d \in JsonData, cs \in JsonCaseLists}
  /\ ret = <<>>
  /\ RunIdle

ParseErrorCases ==
  /\ pc = "start"
  /\ ret' = parseErrorCases(args.data, args.cases)
  /\ pc' = "parseErrorCases"
  /\ UNCHANGED <<args, runVars>>

ParseJsonContent ==
  /\ pc = "start"
  /\ ret' = parseJsonContent(args.projPath, args.data)
  /\ pc' = "parseJsonContent"
  /\ UNCHANGED <<args, runVars>>

ParseJsonFile ==
  /\ pc = "start"
  /\ ret' = parseJsonFile(args.projPath, [kind |-> "report", data |-> args.data],
                          args.cases).value
  /\ pc' = "parseJsonFile"
  /\ UNCHANGED <<args, runVars>>

NextJson == ParseErrorCases \/ ParseJsonContent \/ ParseJsonFile

SpecJson == InitJson /\ [][NextJson]_vars

\* C8: for a report without suites parseErrorCases maps every case to one
\* "failed" record, carrying the message of a report error when the report
\* has errors and the fixed empty-log message when it has none; for a report
\* with suites the map is empty.
C8_ParseErrorCases ==
  (pc = "parseErrorCases") =>
    LET d == args.data
    IN IF d.suites = <<>>
       THEN /\ RecKeys(ret) = {args.cases[i] : i \in 1..Len(args.cases)}
            /\ \A i, j \in 1..Len(ret) : ret[i].key = ret[j].key => i = j
            /\ \A i \in 1..Len(ret) :
                 /\ Len(ret[i].value) = 1
                 /\ ret[i].value[1].result = "failed"
                 /\ IF d.errors # <<>>
                    THEN \E e \in 1..Len(d.errors) :
                           ret[i].value[1].message = d.errors[e].message
                    ELSE ret[i].value[1].message = EmptyLogMessage
       ELSE ret = <<>>

\* cases were given for a report without suites and with errors, and for a
\* second behaviour for a report with suites
C8_Witness ==
  /\ pc = "parseErrorCases"
  /\ args.data.suites = <<>>
  /\ Len(args.data.errors) = 2
  /\ Len(args.cases) = 2
  /\ Len(ret) >= 1

\* some spec of the report has a tests field
HasTestsField(suites) ==
  LET all == AllSuites(suites)
  IN \E i \in 1..Len(all) : \E n \in 1..Len(all[i].specs) : all[i].specs[n].hasTests

\* C9: parseJsonFile returns the map of parseJsonContent whenever that map
\* has a key (a spec with a tests field exists), also when all its lists are
\* empty, and otherwise the map of parseErrorCases for the cases, which is
\* empty for an empty cases list.
C9_ParseJsonFile ==
  (pc = "parseJsonFile") =>
    IF HasTestsField(args.data.suites)
    THEN /\ ret = parseJsonContent(args.projPath, args.data)
         /\ Len(ret) > 0
    ELSE /\ ret = parseErrorCases(args.data, args.cases)
         /\ (args.cases = <<>> => ret = <<>>)
         /\ (args.data.suites = <<>> =>
               RecKeys(ret) = {args.cases[i] : i \in 1..Len(args.cases)})

\* a map with a key and only empty lists was returned although cases were
\* requested
C9_Witness ==
  /\ pc = "parseJsonFile"
  /\ Len(ret) > 0
  /\ \A i \in 1..Len(ret) : ret[i].value = <<>>
  /\ args.cases # <<>>

\* every result of the tests of a spec, in order
AllResults(spec) == Flatten([i \in 1..Len(spec.tests) |-> spec.tests[i].results])

\* the key the claim gives a spec of a suite
ClaimedKey(projPath, rootDir, suite, spec) ==
  handlePath(projPath, rootDir \o <<"/">> \o spec.file) \o <<QM>> \o
  (IF suite.title = suite.file THEN spec.title
   ELSE suite.title \o <<" ">> \o spec.title)

RECURSIVE Occurrences(_)
\* the (suite, spec) pairs of the tree in traversal order
Occurrences(suites) ==
  IF suites = <<>> THEN <<>>
  ELSE LET suite == Head(suites)
       IN [i \in 1..Len(suite.specs) |-> [suite |-> suite, spec |-> suite.specs[i]]]
          \o Occurrences(suite.suites) \o Occurrences(Tail(suites))

\* C10: every spec with at least one test result has its key in the map of
\* parseJsonContent, and the list of the key holds, in traversal order, one
\* record per occurrence of the spec, carrying the result, message and times
\* of the last result of that occurrence.
C10_ParseJsonContent ==
  (pc = "parseJsonContent") =>
    LET occ == Occurrences(args.data.suites)
        withResult == SelectWhere(occ, [o \in {occ[i] : i \in 1..Len(occ)} |->
                                          o.spec.hasTests /\ AllResults(o.spec) # <<>>])
        KeyOf(o) == ClaimedKey(args.projPath, args.data.rootDir, o.suite, o.spec)
    IN \A n \in 1..Len(withResult) :
         LET k == KeyOf(withResult[n])
             same == SelectWhere(withResult,
                                 [o \in {withResult[i] : i \in 1..Len(withResult)} |->
                                    KeyOf(o) = k])
         IN /\ RecHas(ret, k)
            /\ RecGet(ret, k) =
                 [m \in 1..Len(same) |->
                    LET rs == AllResults(same[m].spec)
                        last == rs[Len(rs)]
                    IN MkSpecResult(last.status,
                                    parseTimeStamp(last.startTime, last.duration),
                                    last.message)]

(***************************************************************************)
(* Specification SpecCreate: createTestResults applied to bounded output   *)
(* maps and identifier lists                                               *)
(***************************************************************************)
MaxIdentifiers == 2

PassedResult == MkSpecResult("passed", <<1, 2, 1>>, "")
FailedResult == MkSpecResult("failed", <<3, 5, 2>>, "m1")

\* output keys: a plain title, a title with a space, a test of another file
OutputKeys ==
  { <<"f", "?", "x">>, <<"f", "?", "x", " ", "y">>, <<"g", "?", "x">> }

OutputLists ==
  { <<>>, <<PassedResult>>, <<FailedResult>>, <<PassedResult, FailedResult>> }

OutputMaps ==
  {<<>>}
  \cup {<<[key |-> k, value |-> v]>> : k \in OutputKeys, v \in OutputLists}
  \cup {m \in {<<[key |-> k1, value |-> v1], [key |-> k2, value |-> v2]>> :
                  k1 \in OutputKeys, k2 \in OutputKeys,
                  v1 \in OutputLists, v2 \in OutputLists} :
          m[1].key # m[2].key}

\* identifiers: a plain one, one with an encoded and one with a raw space,
\* a file path, the identifier of a file selector, a test without result
Identifiers ==
  { <<"f", "?", "x">>, <<"f", "?", "x", "%", "2", "0", "y">>,
    <<"f", "?", "x", " ", "y">>, <<"f">>, <<"f", "?">>, <<"f", "?", "z">> }

CasePrefixes == { <<>>, <<"q", "/">> }

InitCreate ==
  /\ pc = "createTestResults"
  /\ args \in {[output |-> o, testIdentifiers |-> ids, casePrefix |-> cp,
                fileMode |-> fm] :
                 o \in OutputMaps, ids \in SeqsUpTo(Identifiers, MaxIdentifiers),
                 cp \in CasePrefixes, fm \in BOOLEAN}
  /\ ret = [threw |-> FALSE, results |-> <<>>]
  /\ RunIdle

CreateTestResults ==
  /\ pc = "createTestResults"
  /\ ret' = createTestResults(args.output, args.testIdentifiers,
                              args.casePrefix, args.fileMode)
  /\ pc' = "created"
  /\ UNCHANGED <<args, runVars>>

NextCreate == CreateTestResults

SpecCreate == InitCreate /\ [][NextCreate]_vars

\* the identifier a result is named after: its name without the case prefix,
\* URI-component-decoded
NamedAfter(result, casePrefix, identifier) ==
  LET stripped == replaceFirst(result.Name, casePrefix)
  IN ~decodeThrows(stripped) /\ decodeURIComponent(stripped) = identifier

\* C2: after createTestResults returns, every identifier has a result: the
\* returned list holds a TestResult whose name, prefix removed and decoded,
\* is the identifier, whatever the output map holds.
C2_EveryIdentifier ==
  (pc = "created" /\ ~ret.threw) =>
    \A i \in 1..Len(args.testIdentifiers) :
      \E n \in 1..Len(ret.results) :
        NamedAfter(ret.results[n], args.casePrefix, args.testIdentifiers[i])

\* an output key is requested: it is an identifier, or in file mode its
\* part before the first '?' is one
RequestedKey(key) ==
  \/ \E i \in 1..Len(args.testIdentifiers) : args.testIdentifiers[i] = key
  \/ /\ args.fileMode
     /\ \E i \in 1..Len(args.testIdentifiers) :
          args.testIdentifiers[i] = BeforeFirstQM(key)

\* the result was built from a result of a requested output key
FromRequestedKey(result) ==
  \E e \in 1..Len(args.output) :
    /\ RequestedKey(args.output[e].key)
    /\ \E j \in 1..Len(args.output[e].value) :
         result = resultOf(args.casePrefix, args.output[e].key, args.output[e].value[j])

\* the result is a synthetic one, named after an identifier
SyntheticFor(result) ==
  /\ result.Message.text = NoResultText
  /\ \E i \in 1..Len(args.testIdentifiers) :
       /\ result.Message.id = args.testIdentifiers[i]
       /\ result.Name =
            encodeQueryParams(args.casePrefix \o args.testIdentifiers[i])

\* C20: createTestResults returns no result of a test that was not
\* requested: every returned TestResult either was built from an output key
\* that is an identifier (or, in file mode, whose part before '?' is one),
\* or is a synthetic result named after an identifier.
C20_OnlyRequested ==
  (pc = "created") =>
    \A n \in 1..Len(ret.results) :
      FromRequestedKey(ret.results[n]) \/ SyntheticFor(ret.results[n])

\* in file mode the result of a key of the requested file was returned, the
\* failed result of a test of another file was left out, and a synthetic
\* result was added
C20_Witness ==
  /\ pc = "created"
  /\ args.fileMode
  /\ args.testIdentifiers = << <<"f">>, <<"f", "?", "z">> >>
  /\ \E e \in 1..Len(args.output) :
       args.output[e] = [key |-> <<"g", "?", "x">>, value |-> <<FailedResult>>]
  /\ \E n \in 1..Len(ret.results) :
       FromRequestedKey(ret.results[n]) /\ ~SyntheticFor(ret.results[n])
  /\ \E n \in 1..Len(ret.results) : SyntheticFor(ret.results[n])
  /\ \A n \in 1..Len(ret.results) :
       ret.results[n].Name # encodeQueryParams(args.casePrefix \o <<"g", "?", "x">>)

\* the positions <<e, j>> of the FAILED results of output keys that were
\* not requested
UnrequestedFailures ==
  { <<e, j>> \in (1..Len(args.output)) \X (1..MaxResults + 1) :
      /\ j <= Len(args.output[e].value)
      /\ ~RequestedKey(args.output[e].key)
      /\ args.output[e].value[j].result # "passed" }

\* the first of them in the order of the output map
FirstUnrequestedFailure ==
  CHOOSE p \in UnrequestedFailures :
    \A q \in UnrequestedFailures :
      p[1] < q[1] \/ (p[1] = q[1] /\ p[2] <= q[2])

RunnerStatuses ==
  { "passed", "failed", "timedOut", "interrupted", "skipped", "unknown",
    "Passed", "" }

StatusResults == { MkSpecResult(st, <<1, 2, 1>>, "") : st \in RunnerStatuses }

InitStatus ==
  /\ pc = "createTestResults"
  /\ args \in {[output |-> <<[key |-> k, value |-> v]>>,
                testIdentifiers |-> <<k>>, casePrefix |-> cp,
                fileMode |-> FALSE] :
                 k \in OutputKeys,
                 v \in SeqsUpTo(StatusResults, MaxResults) \ {<<>>},
                 cp \in CasePrefixes}
  /\ ret = [threw |-> FALSE, results |-> <<>>]
  /\ RunIdle

StatusCreate ==
  /\ pc = "createTestResults"
  /\ ret' = createTestResults(args.output, args.testIdentifiers,
                              args.casePrefix, args.fileMode)
  /\ pc' = "created"
  /\ UNCHANGED <<args, runVars>>

NextStatus == StatusCreate

SpecStatus == InitStatus /\ [][NextStatus]_vars

\* C24: a result has the type SUCCEED if and only if the status of the
\* runner is exactly "passed" and FAILED for every other status; the level
\* of the single log of its single step is INFO exactly when the type is
\* SUCCEED and ERROR otherwise.
C24_TypeAndLevel ==
  (pc = "created") =>
    /\ ~ret.threw
    /\ Len(ret.results) = Len(args.output[1].value)
    /\ \A n \in 1..Len(ret.results) :
         LET status == args.output[1].value[n].result
             result == ret.results[n]
         IN /\ result.ResultType \in {"SUCCEED", "FAILED"}
            /\ (result.ResultType = "SUCCEED") <=> (status = "passed")
            /\ Len(result.Steps) = 1
            /\ result.Steps[1].ResultType = result.ResultType
            /\ result.Steps[1].Level \in {"INFO", "ERROR"}
            /\ (result.Steps[1].Level = "INFO")
                 <=> (result.ResultType = "SUCCEED")

\* a test that timed out and then passed: FAILED with ERROR, then SUCCEED
\* with INFO
C24_Witness ==
  /\ pc = "created"
  /\ Len(ret.results) = 2
  /\ args.output[1].value[1].result = "timedOut"
  /\ args.output[1].value[2].result = "passed"
  /\ ret.results[1].ResultType = "FAILED"
  /\ ret.results[1].Steps[1].Level = "ERROR"
  /\ ret.results[2].ResultType = "SUCCEED"
  /\ ret.results[2].Steps[1].Level = "INFO"

(***************************************************************************)
(* Specification SpecRoundTrip: a selector loaded from a report is         *)
(* requested and run: parseTestcase, groupTestCasesByPath,                 *)
(* generateCommands, parseJsonContent of the run report, createTestResults *)
(***************************************************************************)
MaxSpecs == 2

RoundTripTitles == { TitleA, TitleB, TitleC, <<"x", "%">> }

\* one file suite of the report, titled by its file or not, its specs in
\* the suite's file
RoundTripSuites ==
  { MkSuite(title, FileF, [i \in 1..Len(ts) |-> LoadSpec(ts[i], FileF)],
            FALSE, <<>>) :
      title \in {FileF, <<"S">>},
      ts \in SeqsUpTo(RoundTripTitles, MaxSpecs) \ {<<>>} }

\* the run report of the same suites in which every test passed
PassedSpec(spec) ==
  MkSpec(spec.title, spec.file, TRUE,
         <<MkTest(<<MkResult("passed", TRUE, "", 1000, 1000)>>)>>)

PassedSuite(suite) ==
  MkSuite(suite.title, suite.file,
          [i \in 1..Len(suite.specs) |-> PassedSpec(suite.specs[i])],
          FALSE, <<>>)

InitRoundTrip ==
  /\ pc = "load"
  /\ args \in {[projPath |-> ProjPath, rootDir |-> r, suites |-> <<su>>,
                fileMode |-> fm] :
                 r \in RootDirs, su \in RoundTripSuites, fm \in BOOLEAN}
  /\ ret = [selectors |-> <<>>, requested |-> <<>>, caseLists |-> <<>>,
            testIdentifiers |-> <<>>, threw |-> FALSE, output |-> <<>>,
            results |-> <<>>]
  /\ RunIdle

RoundTripLoad ==
  /\ pc = "load"
  /\ ret' = [ret EXCEPT !.selectors =
               parseTestcase(args.projPath, args.suites, args.rootDir)]
  /\ pc' = "request"
  /\ UNCHANGED <<args, runVars>>

\* the platform requests one of the loaded selectors
RoundTripRequest ==
  /\ pc = "request"
  /\ \E i \in 1..Len(ret.selectors) :
       ret' = [ret EXCEPT !.requested = ret.selectors[i],
                          !.caseLists = groupTestCasesByPath(<<ret.selectors[i]>>)]
  /\ pc' = "generate"
  /\ UNCHANGED <<args, runVars>>

RoundTripGenerate ==
  /\ pc = "generate"
  /\ LET g == generateCommands(ret.caseLists[1].key, ret.caseLists[1].value,
                               args.fileMode)
     IN ret' = [ret EXCEPT !.testIdentifiers = g.testIdentifiers,
                           !.threw = g.threw]
  /\ pc' = "run"
  /\ UNCHANGED <<args, runVars>>

\* the runner writes a report in which every test of the file passed, and
\* executeCommands parses it
RoundTripRun ==
  /\ pc = "run"
  /\ ~ret.threw
  /\ LET report == [rootDir |-> args.rootDir,
                    stats |-> [startTime |-> 1000, duration |-> 1000],
                    suites |-> <<PassedSuite(args.suites[1])>>, errors |-> <<>>]
     IN ret' = [ret EXCEPT !.output =
                  parseJsonFile(args.projPath, [kind |-> "report", data |-> report],
                                ret.testIdentifiers).value]
  /\ pc' = "create"
  /\ UNCHANGED <<args, runVars>>

RoundTripCreate ==
  /\ pc = "create"
  /\ LET r == createTestResults(ret.output, ret.testIdentifiers, <<>>, args.fileMode)
     IN ret' = [ret EXCEPT !.results = r.results, !.threw = r.threw]
  /\ pc' = "done"
  /\ UNCHANGED <<args, runVars>>

NextRoundTrip ==
  \/ RoundTripLoad
  \/ RoundTripRequest
  \/ RoundTripGenerate
  \/ RoundTripRun
  \/ RoundTripCreate

SpecRoundTrip == InitRoundTrip /\ [][NextRoundTrip]_vars

\* C3: when a selector emitted by parseTestcase is requested and run, and
\* the test passed, the results contain a SUCCEED TestResult named exactly
\* by the selector.
C3_RoundTrip ==
  (pc = "done") =>
    \E n \in 1..Len(ret.results) :
      /\ ret.results[n].ResultType = "SUCCEED"
      /\ ret.results[n].Name = ret.requested

(***************************************************************************)
(* Specification SpecRun: runTestCase.  The main flow runs from one await  *)
(* to the next in one step; the runner is the environment, which leaves    *)
(* behind no report file, a file that is not JSON, or a report; the        *)
(* continuations of an un-awaited createRunningTestResults call interleave *)
(* with the main flow.                                                     *)
(***************************************************************************)
MaxTaskSelectors == 2

\* selectors the platform requests (without the configured prefix): two
\* tests of file f, one with an encoded space, a test of file g, the file f
TaskSelectors ==
  { <<"f", "?", "x">>, <<"f", "?", "x", "%", "2", "0", "y">>,
    <<"g", "?", "x">>, <<"f">> }

RunSpec(title, file, status) ==
  MkSpec(title, file, TRUE, <<MkTest(<<MkResult(status, TRUE, "", 1000, 1000)>>)>>)

\* what the runner leaves at jsonName for the path it was given
RunnerFiles(casePath) ==
  LET file == IF casePath = <<>> THEN FileF ELSE casePath
      Report(suites, errors) ==
        [kind |-> "report",
         data |-> [rootDir |-> ProjPath,
                   stats |-> [startTime |-> 1000, duration |-> 1000],
                   suites |-> suites, errors |-> errors]]
      NoData == [rootDir |-> <<>>, stats |-> [startTime |-> 0, duration |-> 0],
                 suites |-> <<>>, errors |-> <<>>]
  IN { [kind |-> "missing", data |-> NoData],
       [kind |-> "garbage", data |-> NoData],
       Report(<<>>, <<>>),
       Report(<<>>, <<[message |-> "e1"]>>),
       Report(<<MkSuite(file, file, <<RunSpec(<<"x">>, file, "passed"),
                                      RunSpec(TitleA, file, "passed")>>,
                        FALSE, <<>>)>>, <<>>),
       Report(<<MkSuite(file, file, <<RunSpec(<<"x">>, file, "failed")>>,
                        FALSE, <<>>)>>, <<>>),
       Report(<<MkSuite(file, file, <<RunSpec(TitleA, file, "passed")>>,
                        FALSE, <<>>)>>, <<>>) }

\* the environment of the process
RunEnvs ==
  { [envPrefix |-> e, fileMode |-> fm, runAll |-> ra] :
      e \in EnvPrefixes, fm \in BOOLEAN, ra \in BOOLEAN }

\* the locals of runTestCase, with the number of loop iterations begun
\* (started) and of runner commands started (commands); testResults is the
\* map executeCommands returned last
NoLocals == [casePath |-> <<>>, testIdentifiers |-> <<>>, results |-> <<>>,
             started |-> 0, commands |-> 0, testResults |-> <<>>]

\* the task file holds the selectors as the platform sends them: under the
\* configured prefix
InitRun ==
  /\ pc = "runTestCase"
  /\ args \in {[projPath |-> ProjPath, env |-> env,
                TestSelectors |-> [i \in 1..Len(sels) |->
                                     getTestcasePrefix(env.envPrefix) \o sels[i]]] :
                 env \in RunEnvs, sels \in SeqsUpTo(TaskSelectors, MaxTaskSelectors)}
  /\ ret = NoLocals
  /\ RunIdle

\* runTestCase up to the for loop (lines 68-149); in run-all mode the one
\* command is handled as a single group of the empty path
RunBegin ==
  /\ pc = "runTestCase"
  /\ LET testcasePrefix == getTestcasePrefix(args.env.envPrefix)
         newSelectors == [i \in 1..Len(args.TestSelectors) |->
                            stripPrefix(args.TestSelectors[i], testcasePrefix)]
     IN groups' = IF args.env.runAll
                  THEN <<[key |-> <<>>, value |-> args.TestSelectors]>>
                  ELSE groupTestCasesByPath(newSelectors)
  /\ pc' = "loop"
  /\ UNCHANGED <<args, ret, sink, running, inflight>>

\* one entry of the sink: a result and the group it was produced for
Delivered(result, n) ==
  [Name |-> result.Name, ResultType |-> result.ResultType,
   Message |-> result.Message, group |-> n]

\* the head of the loop (lines 152-160, 106-118 in run-all mode): the
\* un-awaited createRunningTestResults call hands its first record to the
\* reporter before it returns, then generateCommands runs and the command
\* is started; an exception of generateCommands rejects runTestCase
StartGroup ==
  /\ pc = "loop"
  /\ groups # <<>>
  /\ LET casePath == Head(groups).key
         testcases == Head(groups).value
         n == ret.started + 1
         rs == runningResults(casePath, testcases,
                              getTestcasePrefix(args.env.envPrefix))
         g == IF args.env.runAll
              THEN generateCommands(<<>>, <<>>, args.env.fileMode)
              ELSE generateCommands(casePath, testcases, args.env.fileMode)
     IN /\ sink' = IF rs # <<>> THEN Append(sink, Delivered(rs[1], n)) ELSE sink
        /\ running' = IF Len(rs) > 1
                      THEN Append(running, [i \in 1..(Len(rs) - 1) |->
                                              Delivered(rs[i + 1], n)])
                      ELSE running
        /\ IF g.threw
           THEN /\ pc' = "rejected"
                /\ ret' = [ret EXCEPT !.started = n]
                /\ inflight' = inflight
           ELSE /\ pc' = "exec"
                /\ ret' = [ret EXCEPT !.started = n, !.casePath = casePath,
                                      !.testIdentifiers = g.testIdentifiers,
                                      !.commands = @ + 1]
                /\ inflight' = inflight + 1
  /\ UNCHANGED <<args, groups>>

\* the command exits (executeCommand never rejects) and the main flow runs
\* parseJsonFile and createTestResults (lines 160-168, 118-127); a missing
\* or unparsable report makes parseJsonFile throw, which rejects runTestCase
CommandExits ==
  /\ pc = "exec"
  /\ \E file \in RunnerFiles(ret.casePath) :
       LET cases == IF args.env.runAll /\ ret.testIdentifiers = <<>>
                    THEN args.TestSelectors ELSE ret.testIdentifiers
           parsed == parseJsonFile(args.projPath, file, cases)
           ids == IF args.env.runAll THEN args.TestSelectors
                  ELSE ret.testIdentifiers
           created == createTestResults(parsed.value, ids,
                                        getTestcasePrefix(args.env.envPrefix),
                                        args.env.fileMode)
       IN IF parsed.threw \/ created.threw
          THEN /\ pc' = "rejected"
               /\ ret' = ret
          ELSE /\ pc' = "report"
               /\ ret' = [ret EXCEPT !.results = created.results,
                                     !.testResults = parsed.value]
  /\ inflight' = inflight - 1
  /\ UNCHANGED <<args, groups, sink, running>>

\* await reporter.reportTestResult(result) (lines 169-171, 128-130)
ReportResult ==
  /\ pc = "report"
  /\ ret.results # <<>>
  /\ sink' = Append(sink, Delivered(Head(ret.results), ret.started))
  /\ ret' = [ret EXCEPT !.results = Tail(@)]
  /\ UNCHANGED <<pc, args, groups, running, inflight>>

\* the results of the group are reported: next iteration
EndGroup ==
  /\ pc = "report"
  /\ ret.results = <<>>
  /\ groups' = Tail(groups)
  /\ pc' = "loop"
  /\ UNCHANGED <<args, ret, sink, running, inflight>>

\* the loop is over: runTestCase resolves
RunEnd ==
  /\ pc = "loop"
  /\ groups = <<>>
  /\ pc' = "resolved"
  /\ UNCHANGED <<args, ret, groups, sink, running, inflight>>

\* a continuation of createRunningTestResults hands the next RUNNING record
\* of its loop to the reporter (lines 1660-1662)
ReportRunning ==
  /\ \E q \in 1..Len(running) :
       /\ running[q] # <<>>
       /\ sink' = Append(sink, Head(running[q]))
       /\ running' = [running EXCEPT ![q] = Tail(@)]
  /\ UNCHANGED <<pc, args, ret, groups, inflight>>

NextRun ==
  \/ RunBegin
  \/ StartGroup
  \/ CommandExits
  \/ ReportResult
  \/ EndGroup
  \/ RunEnd
  \/ ReportRunning

SpecRun == InitRun /\ [][NextRun]_vars

\* nothing is left to happen: runTestCase has resolved or rejected and every
\* createRunningTestResults call has finished
RunOver ==
  /\ pc \in {"resolved", "rejected"}
  /\ \A q \in 1..Len(running) : running[q] = <<>>

\* a sink entry is a final result for a requested selector: it is not
\* RUNNING and its name is the selector, or the encoded selector, or decodes
\* to the selector, with or without the prefix
FinalFor(entry, selector) ==
  LET casePrefix == getTestcasePrefix(args.env.envPrefix)
      bare == stripPrefix(selector, casePrefix)
      name == stripPrefix(entry.Name, casePrefix)
  IN /\ entry.ResultType \in {"SUCCEED", "FAILED"}
     /\ \/ name = bare
        \/ name = encodeQueryParams(bare)
        \/ ~decodeThrows(name) /\ decodeURIComponent(name) = bare
        \/ ~decodeThrows(name) /\ ~decodeThrows(bare)
           /\ decodeURIComponent(name) = decodeURIComponent(bare)

\* C1: once runTestCase is over, every selector of the task file has had a
\* final (non-RUNNING) result handed to the reporter, also when the report
\* of its group is missing, unparsable, without suites or lacks the test,
\* and whatever happened to the groups before it.
C1_EverySelectorReported ==
  RunOver =>
    \A i \in 1..Len(args.TestSelectors) :
      \E k \in 1..Len(sink) : FinalFor(sink[k], args.TestSelectors[i])

\* the number of groups runTestCase has to process: the path groups of the
\* stripped selectors, or the one command of run-all mode
TotalGroups ==
  IF args.env.runAll THEN 1
  ELSE LET testcasePrefix == getTestcasePrefix(args.env.envPrefix)
       IN Len(groupTestCasesByPath(
                [i \in 1..Len(args.TestSelectors) |->
                   stripPrefix(args.TestSelectors[i], testcasePrefix)]))

\* at most one command in flight, at most one command per group begun, and
\* no command in flight while a final result is still to be handed over
C14_OneAtATime ==
  /\ inflight \in {0, 1}
  /\ ret.commands <= ret.started
  /\ ret.started - ret.commands <= 1
  /\ inflight > 0 => ret.results = <<>>

\* C14: runTestCase processes the groups one after another: at most one
\* runner command is in flight, a command starts only when every final
\* result of the previous group has been handed to the reporter, and when
\* runTestCase is over exactly one command has been executed for each group.
C14_Sequential ==
  /\ C14_OneAtATime
  /\ RunOver => ret.commands = TotalGroups

\* C19: in the order in which records reach the reporter, no RUNNING record
\* of a group comes after a final (SUCCEED or FAILED) record of that group:
\* every RUNNING record of the group is delivered before the group's first
\* final record, whenever the continuations of createRunningTestResults run.
C19_RunningBeforeFinal ==
  \A k, l \in 1..Len(sink) :
    (k < l /\ sink[k].group = sink[l].group
           /\ sink[k].ResultType \in {"SUCCEED", "FAILED"})
      => sink[l].ResultType # "RUNNING"

\* C27: in run-all mode runTestCase executes exactly one runner command
\* whatever the number of selectors, and every requested selector whose
\* test has a result in the report is reported with that result under the
\* selector as requested, also when a selector prefix is configured.
C27_RunAll ==
  args.env.runAll =>
    /\ RunOver => ret.commands = 1
    /\ (pc = "resolved") =>
         \A i \in 1..Len(args.TestSelectors) :
           LET selector == args.TestSelectors[i]
               bare == stripPrefix(selector,
                                   getTestcasePrefix(args.env.envPrefix))
               key == decodeURIComponent(bare)
           IN (~decodeThrows(bare) /\ RecHas(ret.testResults, key)) =>
                \A j \in 1..Len(RecGet(ret.testResults, key)) :
                  LET result == RecGet(ret.testResults, key)[j]
                  IN \E k \in 1..Len(sink) :
                       /\ sink[k].Name = selector
                       /\ sink[k].ResultType =
                            (IF result.result = "passed" THEN "SUCCEED"
                             ELSE "FAILED")
                       /\ sink[k].Message.text = result.message

\* the one command of run-all mode
C27_OneCommand ==
  (args.env.runAll /\ RunOver) => ret.commands = 1

(***************************************************************************)
(* filterTestcases.  The file system is an input: fileSystem maps a path   *)
(* to what statSync finds there, "file", "directory" or "none" (statSync   *)
(* throws).                                                                *)
(***************************************************************************)
Range(s) == {s[i] : i \in 1..Len(s)}

\* the elements of s whose value is in the set keep, in the order of s
RECURSIVE Restrict(_, _)
Restrict(s, keep) ==
  IF s = <<>> THEN <<>>
  ELSE (IF Head(s) \in keep THEN <<Head(s)>> ELSE <<>>) \o Restrict(Tail(s), keep)

isFileOrDirectory(fileSystem, filePath) ==
  IF filePath \in DOMAIN fileSystem
  THEN CASE fileSystem[filePath] = "file" -> 1
         [] fileSystem[filePath] = "directory" -> -1
         [] OTHER -> 0
  ELSE 0

\* the inner loop: some selector matches testCase
filterMatched(fileSystem, testSelectors, testCase) ==
  \E i \in 1..Len(testSelectors) :
    LET selector == testSelectors[i]
    IN IF isFileOrDirectory(fileSystem, selector) = -1
       THEN includes(testCase, selector \o <<"/">>)
       ELSE includes(testCase, encodeQueryParams(selector))

\* filterTestcases that keeps every test case when exclude is set
filterTestcases_keepAll(fileSystem, testSelectors, parsedTestcases, exclude) ==
  IF Len(testSelectors) = 0 \/ exclude THEN parsedTestcases
  ELSE Restrict(parsedTestcases,
                {t \in Range(parsedTestcases) :
                   filterMatched(fileSystem, testSelectors, t)})

filterTestcases(fileSystem, testSelectors, parsedTestcases, exclude) ==
  IF Len(testSelectors) = 0 THEN parsedTestcases
  ELSE LET matched == [i \in 1..Len(parsedTestcases) |->
                         filterMatched(fileSystem, testSelectors, parsedTestcases[i])]
           RECURSIVE loop(_)
           loop(i) ==
             IF i > Len(parsedTestcases) THEN <<>>
             ELSE (IF exclude /\ ~matched[i] THEN <<parsedTestcases[i]>>
                   ELSE IF ~exclude /\ matched[i] THEN <<parsedTestcases[i]>>
                   ELSE <<>>) \o loop(i + 1)
       IN loop(1)

(***************************************************************************)
(* Specification SpecFilter: filterTestcases applied with exclude = false  *)
(* and exclude = true to the same lists under the same file system         *)
(***************************************************************************)
MaxFilterSelectors == 2
MaxParsed == 2

\* a directory, a file, a test with a space in its title, a file in the
\* directory
FilterSelectors ==
  { <<"d">>, <<"f">>, <<"f", "?", "x", " ", "y">>, <<"d", "/", "f">> }

\* parsed test cases: in directory d, in a directory whose name starts
\* like d, with an encoded title, of another file
FilterParsed ==
  { <<"d", "/", "f", "?", "x">>, <<"d", "x", "/", "f", "?", "x">>,
    <<"f", "?", "x", "%", "2", "0", "y">>, <<"g", "?", "x">> }

FileSystems ==
  { [p \in {<<"d">>, <<"f">>} |-> IF p = <<"d">> THEN d ELSE f] :
      d \in {"directory", "none"}, f \in {"file", "none"} }

InitFilter ==
  /\ pc = "filterTestcases"
  /\ args \in {[fileSystem |-> fs, testSelectors |-> sel, parsedTestcases |-> t] :
                 fs \in FileSystems,
                 sel \in SeqsUpTo(FilterSelectors, MaxFilterSelectors),
                 t \in SeqsUpTo(FilterParsed, MaxParsed)}
  /\ ret = <<>>
  /\ RunIdle

FilterTestcases ==
  /\ pc = "filterTestcases"
  /\ ret' = [included |-> filterTestcases(args.fileSystem, args.testSelectors,
                                          args.parsedTestcases, FALSE),
             excluded |-> filterTestcases(args.fileSystem, args.testSelectors,
                                          args.parsedTestcases, TRUE)]
  /\ pc' = "filtered"
  /\ UNCHANGED <<args, runVars>>

NextFilter == FilterTestcases

SpecFilter == InitFilter /\ [][NextFilter]_vars

\* C11: with no selector filterTestcases returns the parsed test cases
\* unchanged for both values of exclude; with selectors the results for
\* exclude = false and exclude = true share no test case, together hold
\* every parsed test case, and each is the parsed list restricted to its
\* own test cases (input order, duplicates kept).
C11_FilterPartition ==
  (pc = "filtered") =>
    LET t == args.parsedTestcases
    IN IF Len(args.testSelectors) = 0
       THEN ret.included = t /\ ret.excluded = t
       ELSE /\ Range(ret.included) \cap Range(ret.excluded) = {}
            /\ Range(ret.included) \cup Range(ret.excluded) = Range(t)
            /\ ret.included = Restrict(t, Range(ret.included))
            /\ ret.excluded = Restrict(t, Range(ret.excluded))

\* two different parsed test cases were split by a non-empty selector list,
\* one on each side
C11_Witness ==
  /\ pc = "filtered"
  /\ Len(args.testSelectors) > 0
  /\ Len(ret.included) = 1
  /\ Len(ret.excluded) = 1

(***************************************************************************)
(* executeCommand.  exec is the promisified child_process.exec: it throws  *)
(* before a process exists (the error carries no output), or its promise   *)
(* resolves to the output of the process, or rejects with an error that    *)
(* carries the output of the failed process.                               *)
(***************************************************************************)
\* a JavaScript value that may be undefined
Absent == [defined |-> FALSE]
Present(v) == [defined |-> TRUE, value |-> v]

\* what exec settled to
ExecResolved(stdout, stderr) ==
  [kind |-> "resolved", stdout |-> Present(stdout), stderr |-> Present(stderr),
   error |-> Absent]
ExecRejected(stdout, stderr, code) ==
  [kind |-> "rejected", stdout |-> Present(stdout), stderr |-> Present(stderr),
   error |-> Present(code)]
ExecThrew(code) ==
  [kind |-> "threw", stdout |-> Absent, stderr |-> Absent, error |-> Present(code)]

\* executeCommand without its catch block
executeCommand_noCatch(settled) ==
  IF settled.kind = "resolved"
  THEN [rejected |-> FALSE, stdout |-> settled.stdout, stderr |-> settled.stderr,
        error |-> Absent]
  ELSE [rejected |-> TRUE, stdout |-> Absent, stderr |-> Absent,
        error |-> settled.error]

\* the value the promise of executeCommand settles to
executeCommand(settled) ==
  IF settled.kind = "resolved"
  THEN [rejected |-> FALSE, stdout |-> settled.stdout, stderr |-> settled.stderr,
        error |-> Absent]
  ELSE [rejected |-> FALSE, stdout |-> settled.stdout, stderr |-> settled.stderr,
        error |-> settled.error]

(***************************************************************************)
(* Specification SpecExec: one call of executeCommand; the process and its *)
(* output are the environment                                              *)
(***************************************************************************)
MaxOutputLen == 2

Outputs == StringsUpTo({"o", "e"}, MaxOutputLen)
Commands == { <<"n", "p", "x">>, <<"x">>, <<>> }
ExitCodes == {1, 127}

InitExec ==
  /\ pc = "executeCommand"
  /\ args \in {[command |-> c] : c \in Commands}
  /\ ret = <<>>
  /\ RunIdle

\* exec(command) throws before it returns a promise; the catch block runs
ExecThrows ==
  /\ pc = "executeCommand"
  /\ \E code \in ExitCodes :
       ret' = [settled |-> ExecThrew(code), result |-> executeCommand(ExecThrew(code))]
  /\ pc' = "settled"
  /\ UNCHANGED <<args, runVars>>

\* exec(command) starts the process; executeCommand awaits
ExecStarts ==
  /\ pc = "executeCommand"
  /\ pc' = "await exec"
  /\ inflight' = inflight + 1
  /\ UNCHANGED <<args, ret, groups, sink, running>>

\* the process exits with code 0
ExecResolves ==
  /\ pc = "await exec"
  /\ \E out \in Outputs, err \in Outputs :
       ret' = [settled |-> ExecResolved(out, err),
               result |-> executeCommand(ExecResolved(out, err))]
  /\ pc' = "settled"
  /\ inflight' = inflight - 1
  /\ UNCHANGED <<args, groups, sink, running>>

\* the process fails: exit code, signal, or it could not be spawned
ExecRejects ==
  /\ pc = "await exec"
  /\ \E out \in Outputs, err \in Outputs, code \in ExitCodes :
       ret' = [settled |-> ExecRejected(out, err, code),
               result |-> executeCommand(ExecRejected(out, err, code))]
  /\ pc' = "settled"
  /\ inflight' = inflight - 1
  /\ UNCHANGED <<args, groups, sink, running>>

NextExec ==
  \/ ExecThrows
  \/ ExecStarts
  \/ ExecResolves
  \/ ExecRejects

SpecExec == InitExec /\ [][NextExec]_vars

\* C12: the promise of executeCommand never rejects; after a successful
\* command it holds the stdout and stderr of the process and no error
\* field; after a failed process it holds that process's stdout and stderr
\* and a defined error field.
C12_NeverRejects ==
  (pc = "settled") =>
    /\ ~ret.result.rejected
    /\ ret.settled.kind = "resolved" =>
         /\ ret.result.stdout = ret.settled.stdout
         /\ ret.result.stderr = ret.settled.stderr
         /\ ret.result.stdout.defined /\ ret.result.stderr.defined
         /\ ~ret.result.error.defined
    /\ ret.settled.kind = "rejected" =>
         /\ ret.result.stdout = ret.settled.stdout
         /\ ret.result.stderr = ret.settled.stderr
         /\ ret.result.stdout.defined /\ ret.result.stderr.defined
         /\ ret.result.error.defined
    /\ ret.settled.kind = "threw" => ret.result.error.defined

\* a process failed after writing to stderr
C12_Witness ==
  /\ pc = "settled"
  /\ ret.settled.kind = "rejected"
  /\ ret.settled.stderr.value # <<>>
  /\ ret.result.error = Present(127)

(***************************************************************************)
(* Specification SpecPrefix: getTestcasePrefix under every setting of      *)
(* TESTSOLAR_TTP_TESTCASE_PREFIX                                           *)
(***************************************************************************)
MaxPrefixLen == 4

\* the environment variable: unset, or set to a string
PrefixSettings ==
  {Absent} \cup {Present(v) : v \in StringsUpTo({"q", "/", "."}, MaxPrefixLen)}

\* process.env.TESTSOLAR_TTP_TESTCASE_PREFIX || ""
envOrEmpty(setting) == IF setting.defined THEN setting.value ELSE <<>>

InitPrefix ==
  /\ pc = "getTestcasePrefix"
  /\ args \in {[setting |-> v] : v \in PrefixSettings}
  /\ ret = <<>>
  /\ RunIdle

\* the first call, under the configured setting
GetTestcasePrefix ==
  /\ pc = "getTestcasePrefix"
  /\ ret' = [first |-> getTestcasePrefix(envOrEmpty(args.setting))]
  /\ pc' = "normalised"
  /\ UNCHANGED <<args, runVars>>

\* a second call with the variable set to the value the first returned
GetTestcasePrefixAgain ==
  /\ pc = "normalised"
  /\ ret' = [first |-> ret.first,
             second |-> getTestcasePrefix(envOrEmpty(Present(ret.first)))]
  /\ pc' = "renormalised"
  /\ UNCHANGED <<args, runVars>>

NextPrefix ==
  \/ GetTestcasePrefix
  \/ GetTestcasePrefixAgain

SpecPrefix == InitPrefix /\ [][NextPrefix]_vars

\* C13: getTestcasePrefix returns the empty string when the variable is
\* unset or empty; otherwise the configured value, with one '/' appended
\* exactly when the value does not end with '/'; and applied to its own
\* result it returns that result.
C13_PrefixNormalised ==
  /\ (pc \in {"normalised", "renormalised"}) =>
       LET v == envOrEmpty(args.setting)
       IN /\ (~args.setting.defined \/ v = <<>>) => ret.first = <<>>
          /\ (v # <<>> /\ v[Len(v)] = "/") => ret.first = v
          /\ (v # <<>> /\ v[Len(v)] # "/") => ret.first = Append(v, "/")
  /\ (pc = "renormalised") => ret.second = ret.first

\* a value without a trailing '/' was normalised and normalised again
C13_Witness ==
  /\ pc = "renormalised"
  /\ args.setting = Present(<<"q", "/", "q">>)
  /\ ret.second = <<"q", "/", "q", "/">>

(***************************************************************************)
(* parsePlaywrightReport.  A message is a sequence of characters in which  *)
(* the one character InsteadChange stands for the text 'Instead change'.   *)
(***************************************************************************)
NL == "\n"
InsteadChange == "Instead change"
\* the label put before the solution (a Chinese text in the source)
SolutionLabel == "solution: "

\* String.prototype.trim over the white space of the model
RECURSIVE trimStart(_)
trimStart(s) ==
  IF s # <<>> /\ Head(s) \in {" ", NL} THEN trimStart(Tail(s)) ELSE s
RECURSIVE trimEnd(_)
trimEnd(s) ==
  IF s # <<>> /\ s[Len(s)] \in {" ", NL} THEN trimEnd(SubSeq(s, 1, Len(s) - 1)) ELSE s
trim(s) == trimEnd(trimStart(s))

\* the decimal digits of a natural number, as a template literal prints it
RECURSIVE numberToString(_)
numberToString(n) ==
  LET digit == <<"0", "1", "2", "3", "4", "5", "6", "7", "8", "9">>
  IN IF n < 10 THEN <<digit[n + 1]>>
     ELSE numberToString(n \div 10) \o <<digit[(n % 10) + 1]>>

LoadError(name, message) == [Name |-> name, Message |-> message]

\* the messages of the two fixed entries are Chinese texts in the source
JsonParseError == LoadError("playwright-json-parse-error", "JSON parse failed")
TestLoadError ==
  LoadError("playwright-test-load-error",
            "no test case was scanned because of import errors")

\* the body of report.errors.forEach for one error: the LoadError, or a
\* TypeError when the message names a solution but has no second line
loadErrorOf(error) ==
  LET lines == split(error.message, NL)
      errorMessage == lines[1]
      hasSolution == includes(error.message, <<InsteadChange>>)
      threw == hasSolution /\ Len(lines) < 2
      solution == IF hasSolution /\ ~threw THEN trim(lines[2]) ELSE <<>>
      errorName == error.location.file \o <<":">>
                   \o numberToString(error.location.line) \o <<":">>
                   \o numberToString(error.location.column)
      fullErrorMessage == IF solution # <<>>
                          THEN errorMessage \o <<NL, SolutionLabel>> \o solution
                          ELSE errorMessage
  IN [threw |-> threw, value |-> LoadError(errorName, fullErrorMessage)]

\* jsonData is the text of a file: kind "report" when it is the JSON of a
\* PlaywrightReport (data holds it), anything else when JSON.parse throws
parsePlaywrightReport(jsonData) ==
  IF jsonData.kind # "report" THEN <<JsonParseError>>
  ELSE LET report == jsonData.data
           each == [i \in 1..Len(report.errors) |-> loadErrorOf(report.errors[i])]
       IN IF \E i \in 1..Len(each) : each[i].threw
          THEN <<JsonParseError>>
          ELSE [i \in 1..Len(each) |-> each[i].value]
               \o (IF report.stats.expected = 0 /\ Len(report.errors) > 0
                   THEN <<TestLoadError>> ELSE <<>>)

(***************************************************************************)
(* Specification SpecReport: parsePlaywrightReport applied to the text of  *)
(* a list report                                                           *)
(***************************************************************************)
MaxReportErrors == 2

\* messages: one line, two lines, with a solution on the second line, with
\* a blank second line, naming a solution on its only line
ReportMessages ==
  { <<"m">>, <<"m", NL, "n">>, <<"m", InsteadChange, NL, " ", "n">>,
    <<"m", InsteadChange, NL, " ">>, <<InsteadChange>> }

ReportLocations ==
  { [file |-> FileF, line |-> 3, column |-> 12],
    [file |-> FileG, line |-> 10, column |-> 1] }

ReportErrors ==
  { [message |-> m, location |-> l] : m \in ReportMessages, l \in ReportLocations }

ReportTexts ==
  { [kind |-> "garbage",
     data |-> [errors |-> <<>>, stats |-> [expected |-> 0]]] }
  \cup { [kind |-> "report", data |-> [errors |-> es, stats |-> [expected |-> n]]] :
           es \in SeqsUpTo(ReportErrors, MaxReportErrors), n \in {0, 1} }

InitReport ==
  /\ pc = "parsePlaywrightReport"
  /\ args \in {[jsonData |-> t] : t \in ReportTexts}
  /\ ret = <<>>
  /\ RunIdle

ParsePlaywrightReport ==
  /\ pc = "parsePlaywrightReport"
  /\ ret' = parsePlaywrightReport(args.jsonData)
  /\ pc' = "parsed"
  /\ UNCHANGED <<args, runVars>>

NextReport == ParsePlaywrightReport

SpecReport == InitReport /\ [][NextReport]_vars

\* the name file:line:column of a report error
LocationName(error) ==
  error.location.file \o <<":">> \o numberToString(error.location.line)
  \o <<":">> \o numberToString(error.location.column)

\* C16: parsePlaywrightReport returns a list: for text that is not JSON
\* exactly one LoadError named 'playwright-json-parse-error'; for a report
\* with n errors one LoadError per error, in report order, named
\* file:line:column, followed by one 'playwright-test-load-error' entry
\* exactly when n > 0 and stats.expected is 0.
C16_ParsePlaywrightReport ==
  (pc = "parsed") =>
    IF args.jsonData.kind # "report"
    THEN Len(ret) = 1 /\ ret[1].Name = "playwright-json-parse-error"
    ELSE LET errors == args.jsonData.data.errors
             n == Len(errors)
             extra == n > 0 /\ args.jsonData.data.stats.expected = 0
         IN /\ Len(ret) = n + (IF extra THEN 1 ELSE 0)
            /\ \A i \in 1..n : i <= Len(ret) /\ ret[i].Name = LocationName(errors[i])
            /\ extra => ret[Len(ret)].Name = "playwright-test-load-error"

(***************************************************************************)
(* collectTestCases and loadTestCasesFromFile                              *)
(***************************************************************************)
\* lines 87-106 without the special case of the selector "."
selectTestcases_noDot(fileSystem, testSelectors, loadCaseResult) ==
  IF Len(testSelectors) > 0
  THEN filterTestcases(fileSystem, testSelectors, loadCaseResult, FALSE)
  ELSE loadCaseResult

\* lines 87-106: the test cases collectTestCases keeps
selectTestcases(fileSystem, testSelectors, loadCaseResult) ==
  IF Len(testSelectors) > 0
  THEN IF Len(testSelectors) = 1 /\ testSelectors[1] = <<".">>
       THEN loadCaseResult
       ELSE filterTestcases(fileSystem, testSelectors, loadCaseResult, FALSE)
  ELSE loadCaseResult

\* collectTestCases without its try/catch: an exception leaves the function
collectSettles_noCatch(threw, result) ==
  IF threw THEN [rejected |-> TRUE, value |-> result]
  ELSE [rejected |-> FALSE, value |-> result]

\* how the promise of collectTestCases settles: the catch block (lines
\* 116-122) logs the exception and the function returns result
collectSettles(threw, result) == [rejected |-> FALSE, value |-> result]

(***************************************************************************)
(* Specification SpecCollect: loadTestCasesFromFile for a readable task    *)
(* file.  The environment decides whether the project directory can be     *)
(* entered and what the list command leaves in load.json.                  *)
(***************************************************************************)
MaxCollectSelectors == 2

CollectSelectors ==
  { <<".">>, <<"f">>, <<"d">>, <<"f", "?", "x", " ", "y">> }

CollectFileSystems ==
  { [p \in {<<".">>, <<"d">>, <<"f">>} |->
       IF p = <<".">> THEN "directory" ELSE IF p = <<"d">> THEN d ELSE f] :
      d \in {"directory", "none"}, f \in {"file", "none"} }

ListSuite(file) ==
  MkSuite(file, file, <<LoadSpec(TitleC, file), LoadSpec(TitleA, file)>>, FALSE, <<>>)

\* what the list command leaves in load.json: nothing, text that is not
\* JSON, JSON that is not a report (no suites field), or a report
ListFiles ==
  LET NoReport == [rootDir |-> ProjPath, suites |-> <<>>, errors |-> <<>>,
                   stats |-> [expected |-> 0]]
      Report(suites, errors, expected) ==
        [kind |-> "report",
         data |-> [rootDir |-> ProjPath, suites |-> suites, errors |-> errors,
                   stats |-> [expected |-> expected]]]
      AnError == [message |-> <<"m", NL, "n">>,
                  location |-> [file |-> FileF, line |-> 3, column |-> 12]]
  IN { [kind |-> "missing", data |-> NoReport],
       [kind |-> "garbage", data |-> NoReport],
       [kind |-> "malformed", data |-> NoReport],
       Report(<<>>, <<>>, 0),
       Report(<<>>, <<AnError>>, 0),
       Report(<<ListSuite(FileF)>>, <<>>, 2),
       Report(<<ListSuite(FileF)>>, <<AnError>>, 2),
       Report(<<ListSuite(<<"d", "/", "f">>), ListSuite(FileF)>>, <<>>, 4) }

NoLoadResult == [Tests |-> <<>>, LoadErrors |-> <<>>]

InitCollect ==
  /\ pc = "loadTestCasesFromFile"
  /\ args \in {[projPath |-> ProjPath, envPrefix |-> e, fileSystem |-> fs,
                TestSelectors |-> sels] :
                 e \in EnvPrefixes, fs \in CollectFileSystems,
                 sels \in SeqsUpTo(CollectSelectors, MaxCollectSelectors)}
  /\ ret = [result |-> NoLoadResult, loadCaseResult |-> <<>>,
            filterResult |-> <<>>, threw |-> FALSE, settled |-> <<>>]
  /\ RunIdle

\* loadTestCasesFromFile calls collectTestCases, which enters the project
\* directory, creates the attachments directory and starts the list
\* command (lines 55-70); chdir or mkdir may throw
CollectBegin ==
  /\ pc = "loadTestCasesFromFile"
  /\ \E ok \in BOOLEAN :
       IF ok
       THEN /\ pc' = "await executeCommand"
            /\ inflight' = inflight + 1
            /\ ret' = ret
       ELSE /\ pc' = "catch"
            /\ inflight' = inflight
            /\ ret' = [ret EXCEPT !.threw = TRUE]
  /\ UNCHANGED <<args, groups, sink, running>>

\* executeCommand resolves (it never rejects); load.json is read and
\* parsed (lines 71-85): readFileSync, JSON.parse and parseTestcase may
\* throw; with no test case the errors of the report are collected
ListCommandExits ==
  /\ pc = "await executeCommand"
  /\ inflight' = inflight - 1
  /\ \E file \in ListFiles :
       IF file.kind # "report"
       THEN /\ pc' = "catch"
            /\ ret' = [ret EXCEPT !.threw = TRUE]
       ELSE LET loadCaseResult == parseTestcase(args.projPath, file.data.suites,
                                                file.data.rootDir)
                errors == IF Len(loadCaseResult) = 0
                          THEN parsePlaywrightReport(file) ELSE <<>>
            IN /\ pc' = "await filterTestcases"
               /\ ret' = [ret EXCEPT !.loadCaseResult = loadCaseResult,
                                     !.result.LoadErrors = @ \o errors]
  /\ UNCHANGED <<args, groups, sink, running>>

\* lines 87-115: the test cases are filtered and named
FilterAndName ==
  /\ pc = "await filterTestcases"
  /\ LET filterResult == selectTestcases(args.fileSystem, args.TestSelectors,
                                         ret.loadCaseResult)
         testcasePrefix == getTestcasePrefix(args.envPrefix)
     IN ret' = [ret EXCEPT !.filterResult = filterResult,
                           !.result.Tests =
                              @ \o [i \in 1..Len(filterResult) |->
                                      collectedName(testcasePrefix, filterResult[i])]]
  /\ pc' = "return"
  /\ UNCHANGED <<args, runVars>>

\* lines 116-122: the exception is logged
CollectCatch ==
  /\ pc = "catch"
  /\ pc' = "return"
  /\ UNCHANGED <<args, ret, runVars>>

\* line 124: the promise of collectTestCases settles
CollectReturn ==
  /\ pc = "return"
  /\ LET settled == collectSettles(ret.threw, ret.result)
     IN /\ ret' = [ret EXCEPT !.settled = settled]
        /\ pc' = IF settled.rejected THEN "rejected" ELSE "report"
  /\ UNCHANGED <<args, runVars>>

\* loadTestCasesFromFile, lines 144-145: reporter.reportLoadResult
ReportLoadResult ==
  /\ pc = "report"
  /\ sink' = Append(sink, ret.settled.value)
  /\ pc' = "done"
  /\ UNCHANGED <<args, ret, groups, running, inflight>>

NextCollect ==
  \/ CollectBegin
  \/ ListCommandExits
  \/ FilterAndName
  \/ CollectCatch
  \/ CollectReturn
  \/ ReportLoadResult

SpecCollect == InitCollect /\ [][NextCollect]_vars

C18_Selection ==
  (pc \in {"return", "report", "done"} /\ ~ret.threw) =>
    LET sels == args.TestSelectors
        kept == IF sels = <<>> \/ sels = << <<".">> >>
                THEN ret.loadCaseResult
                ELSE filterTestcases(args.fileSystem, sels, ret.loadCaseResult, FALSE)
    IN /\ ret.filterResult = kept
       /\ ret.result.Tests =
            [i \in 1..Len(kept) |->
               collectedName(getTestcasePrefix(args.envPrefix), kept[i])]

\* the single selector "." kept all four parsed test cases, none of which
\* holds the text "./"
C18_Witness ==
  /\ pc = "done"
  /\ args.TestSelectors = << <<".">> >>
  /\ Len(ret.result.Tests) = 4
  /\ filterTestcases(args.fileSystem, args.TestSelectors, ret.loadCaseResult, FALSE) = <<>>

(***************************************************************************)
(* Specification SpecPrefixTrip: with a prefix configured, the tests of a  *)
(* file are loaded (collectTestCases), some of the reported names are      *)
(* requested, and runTestCase (per-file mode, file mode off) strips the    *)
(* prefix, groups, runs the file and creates the results.                  *)
(***************************************************************************)
MaxTripSpecs == 2

\* non-empty settings of TESTSOLAR_TTP_TESTCASE_PREFIX: plain, ending with
\* '/', and directory names with '.' and '+'
TripPrefixes ==
  { <<"q">>, <<"q", "/">>, <<"q", ".">>, <<"q", "+">>, <<"+", "q">> }

TripSuites ==
  { MkSuite(FileF, FileF, [i \in 1..Len(ts) |-> LoadSpec(ts[i], FileF)], FALSE, <<>>) :
      ts \in SeqsUpTo({TitleC, TitleA}, MaxTripSpecs) \ {<<>>} }

\* the run report of a suite: every test passed, or the first failed
TripReport(suite, firstStatus) ==
  [kind |-> "report",
   data |-> [rootDir |-> ProjPath,
             stats |-> [startTime |-> 1000, duration |-> 1000],
             suites |-> <<MkSuite(suite.title, suite.file,
                            [i \in 1..Len(suite.specs) |->
                               RunSpec(suite.specs[i].title, suite.specs[i].file,
                                       IF i = 1 THEN firstStatus ELSE "passed")],
                            FALSE, <<>>)>>,
             errors |-> <<>>]]

\* a report without suites: the runner found no test
TripEmptyReport ==
  [kind |-> "report",
   data |-> [rootDir |-> ProjPath,
             stats |-> [startTime |-> 1000, duration |-> 1000],
             suites |-> <<>>, errors |-> <<>>]]

InitPrefixTrip ==
  /\ pc = "collect"
  /\ args \in {[projPath |-> ProjPath, envPrefix |-> e, suite |-> su] :
                 e \in TripPrefixes, su \in TripSuites}
  /\ ret = [tests |-> <<>>, requested |-> <<>>, newSelectors |-> <<>>,
            caseLists |-> <<>>, testIdentifiers |-> <<>>, results |-> <<>>]
  /\ RunIdle

\* collectTestCases: parse the list report and name the tests
TripCollect ==
  /\ pc = "collect"
  /\ LET loadCaseResult == parseTestcase(args.projPath, <<args.suite>>, ProjPath)
     IN ret' = [ret EXCEPT !.tests =
                  [i \in 1..Len(loadCaseResult) |->
                     collectedName(getTestcasePrefix(args.envPrefix),
                                   loadCaseResult[i])]]
  /\ pc' = "request"
  /\ UNCHANGED <<args, runVars>>

\* the platform requests some of the reported tests, in reported order
TripRequest ==
  /\ pc = "request"
  /\ \E chosen \in (SUBSET Range(ret.tests)) \ {{}} :
       ret' = [ret EXCEPT !.requested = Restrict(ret.tests, chosen)]
  /\ pc' = "strip"
  /\ UNCHANGED <<args, runVars>>

\* runTestCase, lines 132-149: new RegExp throws inside forEach, or every
\* selector is stripped and the selectors are grouped
TripStrip ==
  /\ pc = "strip"
  /\ LET testcasePrefix == getTestcasePrefix(args.envPrefix)
         newSelectors == [i \in 1..Len(ret.requested) |->
                            stripPrefix(ret.requested[i], testcasePrefix)]
     IN IF regExpThrows(testcasePrefix)
        THEN pc' = "rejected" /\ ret' = ret
        ELSE /\ pc' = "generate"
             /\ ret' = [ret EXCEPT !.newSelectors = newSelectors,
                                   !.caseLists = groupTestCasesByPath(newSelectors)]
  /\ UNCHANGED <<args, runVars>>

\* lines 152-159 for the one group of the file
TripGenerate ==
  /\ pc = "generate"
  /\ LET g == generateCommands(ret.caseLists[1].key, ret.caseLists[1].value, FALSE)
     IN IF g.threw THEN pc' = "rejected" /\ ret' = ret
        ELSE /\ pc' = "run"
             /\ ret' = [ret EXCEPT !.testIdentifiers = g.testIdentifiers]
  /\ UNCHANGED <<args, runVars>>

\* lines 160-168: the runner leaves a report and the results are created
TripRun ==
  /\ pc = "run"
  /\ \E file \in {TripReport(args.suite, "passed"),
                  TripReport(args.suite, "failed"), TripEmptyReport} :
       LET parsed == parseJsonFile(args.projPath, file, ret.testIdentifiers)
           created == createTestResults(parsed.value, ret.testIdentifiers,
                                        getTestcasePrefix(args.envPrefix), FALSE)
       IN IF parsed.threw \/ created.threw THEN pc' = "rejected" /\ ret' = ret
          ELSE /\ pc' = "done"
               /\ ret' = [ret EXCEPT !.results = created.results]
  /\ UNCHANGED <<args, runVars>>

NextPrefixTrip ==
  \/ TripCollect
  \/ TripRequest
  \/ TripStrip
  \/ TripGenerate
  \/ TripRun

SpecPrefixTrip == InitPrefixTrip /\ [][NextPrefixTrip]_vars

\* C17: with a non-empty prefix the prefix handling is a round trip: the
\* requested names are the reported ones (prefix + selector), runTestCase
\* strips exactly the prefix from each of them without failing, and every
\* result createTestResults returns is named by a requested name.
C17_PrefixRoundTrip ==
  /\ pc # "rejected"
  /\ (pc \in {"generate", "run", "done"}) =>
       \A i \in 1..Len(ret.requested) :
         getTestcasePrefix(args.envPrefix) \o ret.newSelectors[i] = ret.requested[i]
  /\ (pc = "done") =>
       \A n \in 1..Len(ret.results) : ret.results[n].Name \in Range(ret.requested)

(***************************************************************************)
(* Specification SpecNoSuites: the runner leaves a report without suites;  *)
(* executeCommands parses it (parseJsonFile falls back to parseErrorCases) *)
(* and runTestCase creates the results of the identifiers.                 *)
(***************************************************************************)
InitNoSuites ==
  /\ pc = "parseJsonFile"
  /\ args \in {[projPath |-> ProjPath, testIdentifiers |-> ids, casePrefix |-> cp,
                fileMode |-> fm,
                file |-> [kind |-> "report",
                          data |-> [rootDir |-> ProjPath,
                                    stats |-> [startTime |-> 5000, duration |-> 2000],
                                    suites |-> <<>>, errors |-> es]]] :
                 ids \in SeqsUpTo(Identifiers, MaxIdentifiers),
                 cp \in CasePrefixes, fm \in BOOLEAN, es \in JsonErrorLists}
  /\ ret = [output |-> <<>>, threw |-> FALSE, results |-> <<>>]
  /\ RunIdle

\* executeCommands, line 1351
NoSuitesParse ==
  /\ pc = "parseJsonFile"
  /\ LET parsed == parseJsonFile(args.projPath, args.file, args.testIdentifiers)
     IN ret' = [ret EXCEPT !.output = parsed.value, !.threw = parsed.threw]
  /\ pc' = "createTestResults"
  /\ UNCHANGED <<args, runVars>>

\* runTestCase, line 168
NoSuitesCreate ==
  /\ pc = "createTestResults"
  /\ LET created == createTestResults(ret.output, args.testIdentifiers,
                                      args.casePrefix, args.fileMode)
     IN ret' = [ret EXCEPT !.results = created.results, !.threw = created.threw]
  /\ pc' = "created"
  /\ UNCHANGED <<args, runVars>>

NextNoSuites ==
  \/ NoSuitesParse
  \/ NoSuitesCreate

SpecNoSuites == InitNoSuites /\ [][NextNoSuites]_vars

\* C21: when the report has no suites, every requested identifier has a
\* FAILED result whose test name is, character for character, the case
\* prefix followed by the identifier, also for an identifier whose title
\* part holds '%'.
C21_FailedUnderIdentifier ==
  (pc = "created") =>
    /\ ~ret.threw
    /\ \A i \in 1..Len(args.testIdentifiers) :
         \E n \in 1..Len(ret.results) :
           /\ ret.results[n].ResultType = "FAILED"
           /\ ret.results[n].Name = args.casePrefix \o args.testIdentifiers[i]

(***************************************************************************)
(* Specification SpecFileMode: runTestCase in per-file mode with           *)
(* TESTSOLAR_TTP_FILEMODE = "1": the selectors are grouped, one group is   *)
(* run and its results are created.                                        *)
(***************************************************************************)
MaxFileSelectors == 2

\* two file paths and one test of the first file
FileModeSelectors == { FileF, FileG, <<"f", "?", "x">> }

InitFileMode ==
  /\ pc = "group"
  /\ args \in {[projPath |-> ProjPath, casePrefix |-> cp, selectors |-> sels] :
                 cp \in CasePrefixes,
                 sels \in SeqsUpTo(FileModeSelectors, MaxFileSelectors) \ {<<>>}}
  /\ ret = [caseLists |-> <<>>, casePath |-> <<>>, testcases |-> <<>>,
            testIdentifiers |-> <<>>, output |-> <<>>, results |-> <<>>]
  /\ RunIdle

\* runTestCase, line 149 (the selectors carry no prefix here)
FileModeGroup ==
  /\ pc = "group"
  /\ ret' = [ret EXCEPT !.caseLists = groupTestCasesByPath(args.selectors)]
  /\ pc' = "generate"
  /\ UNCHANGED <<args, runVars>>

\* lines 152-159 for one of the groups
FileModeGenerate ==
  /\ pc = "generate"
  /\ \E g \in 1..Len(ret.caseLists) :
       LET gen == generateCommands(ret.caseLists[g].key, ret.caseLists[g].value, TRUE)
       IN ret' = [ret EXCEPT !.casePath = ret.caseLists[g].key,
                             !.testcases = ret.caseLists[g].value,
                             !.testIdentifiers = gen.testIdentifiers]
  /\ pc' = "run"
  /\ UNCHANGED <<args, runVars>>

\* lines 160-166: the runner ran the whole file (no --grep in file mode)
\* and left a report of its two tests
FileModeRun ==
  /\ pc = "run"
  /\ \E s1 \in {"passed", "failed"}, s2 \in {"passed", "failed"} :
       LET file == [kind |-> "report",
                    data |-> [rootDir |-> ProjPath,
                              stats |-> [startTime |-> 1000, duration |-> 1000],
                              suites |-> <<MkSuite(ret.casePath, ret.casePath,
                                             <<RunSpec(TitleC, ret.casePath, s1),
                                               RunSpec(TitleA, ret.casePath, s2)>>,
                                             FALSE, <<>>)>>,
                              errors |-> <<>>]]
       IN ret' = [ret EXCEPT !.output =
                    parseJsonFile(args.projPath, file, ret.testIdentifiers).value]
  /\ pc' = "create"
  /\ UNCHANGED <<args, runVars>>

\* line 168
FileModeCreate ==
  /\ pc = "create"
  /\ ret' = [ret EXCEPT !.results =
               createTestResults(ret.output, ret.testIdentifiers,
                                 args.casePrefix, TRUE).results]
  /\ pc' = "done"
  /\ UNCHANGED <<args, runVars>>

NextFileMode ==
  \/ FileModeGroup
  \/ FileModeGenerate
  \/ FileModeRun
  \/ FileModeCreate

SpecFileMode == InitFileMode /\ [][NextFileMode]_vars

\* C22: in file mode, when a requested selector is a file path without
\* '?', the result of every test of that file in the report is returned:
\* for every output key whose part before '?' is the file path, the results
\* hold the TestResult built from that key.
C22_FileModeReturnsFile ==
  (pc = "done" /\ \E i \in 1..Len(args.selectors) : args.selectors[i] = ret.casePath) =>
    \A e \in 1..Len(ret.output) :
      BeforeFirstQM(ret.output[e].key) = ret.casePath =>
        \A j \in 1..Len(ret.output[e].value) :
          \E n \in 1..Len(ret.results) :
            ret.results[n] =
              resultOf(args.casePrefix, ret.output[e].key, ret.output[e].value[j])

(***************************************************************************)
(* The command line of generateCommands.  The command is the sequence of   *)
(* the pieces of its template string; a piece is a kind and a text, and an *)
(* option that is left out is a piece with the empty text.  The hash of    *)
(* the output directory depends on the clock and on Math.random.           *)
(***************************************************************************)
Piece(kind, text) == [kind |-> kind, text |-> text]

\* the settings generateCommands reads from process.env
extraArgsOf(env) == envOrEmpty(env.EXTRAARGS)
useEnvJsonFile(env) ==
  ~(env.ENVJSONFILE.defined /\ env.ENVJSONFILE.value = <<"0">>)
disableTrace(env) == env.TRACE.defined /\ env.TRACE.value = <<"0">>
workCountsSet(env) == env.WORKCOUNTS.defined /\ env.WORKCOUNTS.value # <<>>
fileModeOf(env) == env.FILEMODE.defined /\ env.FILEMODE.value = <<"1">>

\* commandOf that keeps the grep pattern in file mode
commandOf_grepInFileMode(casePath, testCases, jsonName, env, hash) ==
  LET joined == join(testCases, <<"|">>)
      hasGrep == Len(testCases) > 0
      grepPattern == IF hasGrep
                     THEN Piece("--grep=", decodeURIComponent(joined))
                     ELSE Piece("", <<>>)
      traceOption == IF disableTrace(env) THEN Piece("--trace off", <<>>)
                     ELSE Piece("--trace on", <<>>)
      workersOption == IF workCountsSet(env)
                       THEN Piece("--workers=", env.WORKCOUNTS.value)
                       ELSE Piece("", <<>>)
      outputOption == Piece("--output=test-results-", hash)
      target == IF Len(testCases) = 0
                THEN IF fileModeOf(env) THEN <<Piece("casePath", casePath)>>
                     ELSE <<>>
                ELSE <<Piece("casePath", casePath), grepPattern>>
      options == <<Piece("--reporter=json", <<>>), traceOption, workersOption,
                   outputOption, Piece("extraArgs", extraArgsOf(env))>>
      test == <<Piece("npx playwright test", <<>>)>> \o target \o options
  IN IF hasGrep /\ decodeThrows(joined)
     THEN [threw |-> TRUE, command |-> <<>>]
     ELSE [threw |-> FALSE,
           command |->
             IF useEnvJsonFile(env)
             THEN <<Piece("export PLAYWRIGHT_JSON_OUTPUT_NAME=", jsonName),
                    Piece("&&", <<>>)>> \o test
             ELSE test \o <<Piece(">", jsonName)>>]

\* the command of generateCommands
commandOf(casePath, testCases, jsonName, env, hash) ==
  LET joined == join(testCases, <<"|">>)
      hasGrep == Len(testCases) > 0 /\ ~fileModeOf(env)
      grepPattern == IF hasGrep
                     THEN Piece("--grep=", decodeURIComponent(joined))
                     ELSE Piece("", <<>>)
      traceOption == IF disableTrace(env) THEN Piece("--trace off", <<>>)
                     ELSE Piece("--trace on", <<>>)
      workersOption == IF workCountsSet(env)
                       THEN Piece("--workers=", env.WORKCOUNTS.value)
                       ELSE Piece("", <<>>)
      outputOption == Piece("--output=test-results-", hash)
      target == IF Len(testCases) = 0
                THEN IF fileModeOf(env) THEN <<Piece("casePath", casePath)>>
                     ELSE <<>>
                ELSE <<Piece("casePath", casePath), grepPattern>>
      options == <<Piece("--reporter=json", <<>>), traceOption, workersOption,
                   outputOption, Piece("extraArgs", extraArgsOf(env))>>
      test == <<Piece("npx playwright test", <<>>)>> \o target \o options
  IN IF hasGrep /\ decodeThrows(joined)
     THEN [threw |-> TRUE, command |-> <<>>]
     ELSE [threw |-> FALSE,
           command |->
             IF useEnvJsonFile(env)
             THEN <<Piece("export PLAYWRIGHT_JSON_OUTPUT_NAME=", jsonName),
                    Piece("&&", <<>>)>> \o test
             ELSE test \o <<Piece(">", jsonName)>>]

(***************************************************************************)
(* Specification SpecCommand: generateCommands applied to bounded test     *)
(* names under the settings of the environment                             *)
(***************************************************************************)
MaxCommandCases == 2

\* names: a plain one, one with an encoded space, a malformed escape
CommandCases == { <<"x">>, <<"x", "%", "2", "0", "y">>, <<"%">> }

CommandPaths == { <<>>, FileF }

JsonName == <<"j">>

Hashes == { <<"a">>, <<"b">> }

Settings(values) == {Absent} \cup {Present(v) : v \in values}

CommandEnvs ==
  [EXTRAARGS : Settings({<<"-", "x">>}),
   ENVJSONFILE : Settings({<<"0">>, <<"1">>}),
   TRACE : Settings({<<"0">>, <<"1">>}),
   WORKCOUNTS : Settings({<<>>, <<"0">>}),
   FILEMODE : Settings({<<"1">>, <<"0">>})]

InitCommand ==
  /\ pc = "generateCommands"
  /\ args \in [casePath : CommandPaths,
               testCases : SeqsUpTo(CommandCases, MaxCommandCases),
               jsonName : {JsonName}, env : CommandEnvs]
  /\ ret = [threw |-> FALSE, command |-> <<>>]
  /\ RunIdle

GenerateCommands ==
  /\ pc = "generateCommands"
  /\ \E hash \in Hashes :
       ret' = commandOf(args.casePath, args.testCases, args.jsonName,
                        args.env, hash)
  /\ pc' = "generated"
  /\ UNCHANGED <<args, runVars>>

NextCommand == GenerateCommands

SpecCommand == InitCommand /\ [][NextCommand]_vars

\* the command holds a piece of the kind
HasPiece(kind) == \E i \in 1..Len(ret.command) : ret.command[i].kind = kind

\* the command holds the piece
HasExactly(piece) == \E i \in 1..Len(ret.command) : ret.command[i] = piece

\* C25: the command holds a --grep option if and only if testCases is not
\* empty and file mode is off, and names casePath if and only if testCases
\* is not empty or file mode is on; the trace is '--trace off' only when
\* TESTSOLAR_TTP_TRACE is "0" (and '--trace on' otherwise), a --workers
\* option appears only when TESTSOLAR_TTP_WORKCOUNTS is set, and the report
\* goes to jsonName by the environment variable unless
\* TESTSOLAR_TTP_ENVJSONFILE is "0", and then by redirection.
C25_Command ==
  (pc = "generated" /\ ~ret.threw) =>
    LET env == args.env
        fileMode == env.FILEMODE = Present(<<"1">>)
    IN /\ HasPiece("--grep=") <=> (Len(args.testCases) > 0 /\ ~fileMode)
       /\ HasPiece("casePath") <=> (Len(args.testCases) > 0 \/ fileMode)
       /\ HasPiece("casePath") => HasExactly(Piece("casePath", args.casePath))
       /\ HasPiece("--trace off") <=> (env.TRACE = Present(<<"0">>))
       /\ HasPiece("--trace on") <=> ~HasPiece("--trace off")
       /\ HasPiece("--workers=") => env.WORKCOUNTS.defined
       /\ IF env.ENVJSONFILE = Present(<<"0">>)
          THEN /\ ret.command[Len(ret.command)] = Piece(">", args.jsonName)
               /\ ~HasPiece("export PLAYWRIGHT_JSON_OUTPUT_NAME=")
          ELSE /\ ret.command[1] =
                    Piece("export PLAYWRIGHT_JSON_OUTPUT_NAME=", args.jsonName)
               /\ ~HasPiece(">")

\* a command of file mode with names: the path without a grep, the trace
\* off, workers, and the report redirected
C25_Witness ==
  /\ pc = "generated"
  /\ ~ret.threw
  /\ Len(args.testCases) = 2
  /\ args.env.FILEMODE = Present(<<"1">>)
  /\ args.env.TRACE = Present(<<"0">>)
  /\ args.env.ENVJSONFILE = Present(<<"0">>)
  /\ HasPiece("casePath")
  /\ ~HasPiece("--grep=")
  /\ HasPiece("--trace off")
  /\ HasPiece("--workers=")
  /\ HasPiece(">")

(***************************************************************************)
(* Specification SpecRegroup: the selectors of a task are grouped with     *)
(* groupTestCasesByPath and generateCommands is called for each group, in  *)
(* the order of the entries                                                *)
(***************************************************************************)
MaxRegroup == 2

\* selectors with a '?': plain, with an encoded space, of another file, with
\* a second '?', with a '%' that starts no escape
RegroupSelectors ==
  { <<"f", "?", "x">>, <<"f", "?", "x", "%", "2", "0", "y">>,
    <<"g", "?", "x">>, <<"f", "?", "x", "?", "y">>, <<"f", "?", "%">> }

RegroupEnvs ==
  { env \in CommandEnvs : ~env.EXTRAARGS.defined /\ ~env.WORKCOUNTS.defined }

InitRegroup ==
  /\ pc = "group"
  /\ args \in [selectors : SeqsUpTo(RegroupSelectors, MaxRegroup),
               env : RegroupEnvs]
  /\ ret = [grouped |-> <<>>, next |-> 1, threw |-> FALSE,
            testIdentifiers |-> <<>>, perGroup |-> TRUE]
  /\ RunIdle

\* groupTestCasesByPath(S)
RegroupGroup ==
  /\ pc = "group"
  /\ ret' = [ret EXCEPT !.grouped = groupTestCasesByPath(args.selectors)]
  /\ pc' = "generate"
  /\ UNCHANGED <<args, runVars>>

\* generateCommands for the next group
RegroupGenerate ==
  /\ pc = "generate"
  /\ ret.next <= Len(ret.grouped)
  /\ LET casePath == ret.grouped[ret.next].key
         testCases == ret.grouped[ret.next].value
         made == generateCommands(casePath, testCases, fileModeOf(args.env))
     IN \E hash \in Hashes :
          /\ made.threw =
               commandOf(casePath, testCases, JsonName, args.env, hash).threw
          /\ IF made.threw
             THEN /\ ret' = [ret EXCEPT !.threw = TRUE]
                  /\ pc' = "done"
             ELSE /\ ret' = [ret EXCEPT
                       !.next = @ + 1,
                       !.testIdentifiers = @ \o made.testIdentifiers,
                       !.perGroup = @ /\
                         made.testIdentifiers =
                           [i \in 1..Len(testCases) |->
                              casePath \o <<QM>> \o testCases[i]]]
                  /\ pc' = "generate"
  /\ UNCHANGED <<args, runVars>>

RegroupEnd ==
  /\ pc = "generate"
  /\ ret.next > Len(ret.grouped)
  /\ pc' = "done"
  /\ UNCHANGED <<args, ret, runVars>>

NextRegroup == RegroupGroup \/ RegroupGenerate \/ RegroupEnd

SpecRegroup == InitRegroup /\ [][NextRegroup]_vars

\* how often x occurs in xs
TimesIn(xs, x) == Cardinality({i \in 1..Len(xs) : xs[i] = x})

\* C26: for every list S of selectors with a '?' and every setting of the
\* environment, the identifiers that generateCommands returns over all
\* groups of groupTestCasesByPath(S) are, as a multiset, S, and the i-th
\* identifier of a group is casePath + '?' + testCases[i].
C26_Lossless ==
  (pc = "done") =>
    /\ ~ret.threw
    /\ ret.perGroup
    /\ \A x \in Range(args.selectors) \cup Range(ret.testIdentifiers) :
         TimesIn(ret.testIdentifiers, x) = TimesIn(args.selectors, x)

\* the same for the lists on which generateCommands returns for every group
C26_WhenReturned ==
  (pc = "done" /\ ~ret.threw) =>
    /\ ret.perGroup
    /\ \A x \in Range(args.selectors) \cup Range(ret.testIdentifiers) :
         TimesIn(ret.testIdentifiers, x) = TimesIn(args.selectors, x)

(***************************************************************************)
(* Specification SpecSelect: a list report is parsed with parseTestcase    *)
(* and one of the parsed test cases is the only selector of                *)
(* filterTestcases over the parsed list                                    *)
(***************************************************************************)
\* the paths statSync is asked about are selectors of tests, not files
SelectFileSystem == [p \in {FileF, FileG} |-> "file"]

InitSelect ==
  /\ pc = "parseTestcase"
  /\ args \in {[projPath |-> ProjPath, rootDir |-> r, suites |-> ss,
                fileSystem |-> SelectFileSystem] :
                 r \in RootDirs, ss \in SeqsUpTo(LoadSuites, MaxSuites)}
  /\ ret = [parsed |-> <<>>, t |-> <<>>, filtered |-> <<>>]
  /\ RunIdle

SelectParse ==
  /\ pc = "parseTestcase"
  /\ ret' = [ret EXCEPT !.parsed =
               parseTestcase(args.projPath, args.suites, args.rootDir)]
  /\ pc' = "filterTestcases"
  /\ UNCHANGED <<args, runVars>>

\* filterTestcases([t], parsed, false) for an element t of parsed
SelectFilter ==
  /\ pc = "filterTestcases"
  /\ \E i \in 1..Len(ret.parsed) :
       ret' = [ret EXCEPT
                 !.t = ret.parsed[i],
                 !.filtered = filterTestcases(args.fileSystem,
                                              <<ret.parsed[i]>>,
                                              ret.parsed, FALSE)]
  /\ pc' = "filtered"
  /\ UNCHANGED <<args, runVars>>

NextSelect == SelectParse \/ SelectFilter

SpecSelect == InitSelect /\ [][NextSelect]_vars

\* C28: for every list parsed that parseTestcase produces and every element
\* t of it, filterTestcases([t], parsed, false) contains t, also when the
\* title part of t holds percent-encoded characters.
C28_SelectsLoaded ==
  (pc = "filtered") => Contains(ret.filtered, ret.t)

\* the same for the test cases without a '%'
C28_Unencoded ==
  (pc = "filtered" /\ ~includes(ret.t, <<"%">>)) => Contains(ret.filtered, ret.t)

(***************************************************************************)
(* Specification SpecNames: one runner report in which every spec has a    *)
(* test result is parsed by parseTestcase and by parseJsonContent          *)
(***************************************************************************)
\* a describe block nested in a file suite
NamesLeaf(file) ==
  MkSuite(<<"T">>, file, <<PassedSpec(LoadSpec(TitleA, file))>>, FALSE, <<>>)

\* file suites: titled by the file or not, with no spec, one or two, and
\* with no suites field, an empty one or one nested describe block
NamesSuites ==
  { MkSuite(title, file,
            [i \in 1..Len(ts) |-> PassedSpec(LoadSpec(ts[i], file))],
            nested.has, nested.suites) :
      title \in {FileF, <<"S">>},
      file \in {FileF, FileG},
      ts \in { <<>>, <<TitleA>>, <<TitleC, TitleB>> },
      nested \in {[has |-> FALSE, suites |-> <<>>],
                  [has |-> TRUE, suites |-> <<>>],
                  [has |-> TRUE, suites |-> <<NamesLeaf(FileF)>>]} }

InitNames ==
  /\ pc = "parse"
  /\ args \in {[projPath |-> ProjPath,
                data |-> [rootDir |-> r,
                          stats |-> [startTime |-> 1000, duration |-> 1000],
                          suites |-> ss, errors |-> <<>>]] :
                 r \in RootDirs, ss \in SeqsUpTo(NamesSuites, MaxSuites)}
  /\ ret = [selectors |-> <<>>, caseResults |-> <<>>]
  /\ RunIdle

\* parseTestcase(projPath, data)
NamesParseTestcase ==
  /\ pc = "parse"
  /\ ret' = [ret EXCEPT !.selectors =
               parseTestcase(args.projPath, args.data.suites,
                             args.data.rootDir)]
  /\ pc' = "parseJsonContent"
  /\ UNCHANGED <<args, runVars>>

\* parseJsonContent(projPath, data)
NamesParseJsonContent ==
  /\ pc = "parseJsonContent"
  /\ ret' = [ret EXCEPT !.caseResults =
               parseJsonContent(args.projPath, args.data)]
  /\ pc' = "named"
  /\ UNCHANGED <<args, runVars>>

NextNames == NamesParseTestcase \/ NamesParseJsonContent

SpecNames == InitNames /\ [][NextNames]_vars

\* a selector with its title part URI-component-decoded
TitleDecoded(selector) ==
  LET sp == SplitSelector(selector)
  IN sp.path \o <<QM>> \o decodeURIComponent(sp.name)

\* C29: for every runner report in which every spec has a test result, the
\* set of the selectors parseTestcase returns, with the title part
\* URI-component-decoded, is the set of the keys of the map
\* parseJsonContent returns for the same report and project path.
C29_SameNames ==
  (pc = "named") =>
    { TitleDecoded(ret.selectors[i]) : i \in 1..Len(ret.selectors) }
      = { ret.caseResults[i].key : i \in 1..Len(ret.caseResults) }

\* the same for the reports in which no suite has a suites field
C29_WithoutSuitesField ==
  (pc = "named" /\ \A i \in 1..Len(args.data.suites) :
                     ~args.data.suites[i].hasSuites) =>
    { TitleDecoded(ret.selectors[i]) : i \in 1..Len(ret.selectors) }
      = { ret.caseResults[i].key : i \in 1..Len(ret.caseResults) }

(***************************************************************************)
(* Specification SpecLoadMain: the module load.ts is evaluated.  Its top   *)
(* level runs to the end before any continuation of an asynchronous call   *)
(* runs; after that the invocations of loadTestCasesFromFile advance from  *)
(* one await to the next in any order.  ret.calls holds the invocations,   *)
(* ret.listCommands counts the list commands started, sink receives the    *)
(* load results handed to the reporter.  The file of the list output is in *)
(* a fresh directory, so it is never found; the isFileOrDirectory of       *)
(* utils.ts returns a number, on which the call of catch throws, and a     *)
(* promise-returning one resolves.                                         *)
(***************************************************************************)
\* loadTestCasesFromFile is called: it runs up to the await of the install
\* command of collectTestCases (load.ts lines 105-116, 27-37)
Invoked(calls) == Append(calls, [at |-> "await install", result |-> NoLoadResult])

\* the load result collectTestCases builds from the list output (lines
\* 59-91) when the selectors ask for no filtering
loadResultOf(projPath, file) ==
  IF file.kind # "report" THEN NoLoadResult
  ELSE LET loadCaseResult == parseTestcase(projPath, file.data.suites,
                                           file.data.rootDir)
       IN [Tests |-> [i \in 1..Len(loadCaseResult) |->
                        collectedName(<<>>, loadCaseResult[i])],
           LoadErrors |-> <<>>]

InitLoadMain ==
  /\ pc = "line 129"
  /\ args \in [projPath : {ProjPath}, isMain : BOOLEAN,
               TestSelectors : {<<>>, <<<<".">>>>}]
  /\ ret = [calls |-> <<>>, listCommands |-> 0]
  /\ RunIdle

\* lines 129-135: the unconditional call
MainCalls ==
  /\ pc = "line 129"
  /\ ret' = [ret EXCEPT !.calls = Invoked(@)]
  /\ inflight' = inflight + 1
  /\ pc' = "line 138"
  /\ UNCHANGED <<args, groups, sink, running>>

\* lines 138-140: the call under require.main === module
MainCallsAsMain ==
  /\ pc = "line 138"
  /\ IF args.isMain
     THEN /\ ret' = [ret EXCEPT !.calls = Invoked(@)]
          /\ inflight' = inflight + 1
     ELSE UNCHANGED <<ret, inflight>>
  /\ pc' = "end"
  /\ UNCHANGED <<args, groups, sink, running>>

\* the install command of an invocation exits (lines 37-56): the list
\* command is started, or the call of catch throws and the catch block of
\* collectTestCases leaves the empty result
InstallExits ==
  /\ pc = "end"
  /\ \E c \in 1..Len(ret.calls) :
       /\ ret.calls[c].at = "await install"
       /\ \E catchThrows \in BOOLEAN :
            IF catchThrows
            THEN /\ ret' = [ret EXCEPT !.calls[c].at = "report"]
                 /\ inflight' = inflight - 1
            ELSE /\ ret' = [ret EXCEPT !.calls[c].at = "await list",
                                       !.listCommands = @ + 1]
                 /\ inflight' = inflight
  /\ UNCHANGED <<pc, args, groups, sink, running>>

\* the list command of an invocation exits (lines 53-101)
ListExits ==
  /\ pc = "end"
  /\ \E c \in 1..Len(ret.calls) :
       /\ ret.calls[c].at = "await list"
       /\ \E file \in ListFiles :
            ret' = [ret EXCEPT !.calls[c].at = "report",
                               !.calls[c].result =
                                  loadResultOf(args.projPath, file)]
  /\ inflight' = inflight - 1
  /\ UNCHANGED <<pc, args, groups, sink, running>>

\* lines 121-122: reporter.reportLoadResult
ReportsLoad ==
  /\ pc = "end"
  /\ \E c \in 1..Len(ret.calls) :
       /\ ret.calls[c].at = "report"
       /\ sink' = Append(sink, ret.calls[c].result)
       /\ ret' = [ret EXCEPT !.calls[c].at = "done"]
  /\ UNCHANGED <<pc, args, groups, running, inflight>>

NextLoadMain ==
  \/ MainCalls
  \/ MainCallsAsMain
  \/ InstallExits
  \/ ListExits
  \/ ReportsLoad

SpecLoadMain == InitLoadMain /\ [][NextLoadMain]_vars

\* every invocation has reported
LoadMainOver ==
  /\ pc = "end"
  /\ \A c \in 1..Len(ret.calls) : ret.calls[c].at = "done"

\* C30: when load.ts is the main module, loadTestCasesFromFile is invoked
\* once per process: no second invocation runs beside the first, the list
\* command is executed at most once, and when the process is through one
\* invocation has been made and one load result has been reported.
C30_LoadsOnce ==
  args.isMain =>
    /\ Len(ret.calls) <= 1
    /\ inflight <= 1
    /\ ret.listCommands <= 1
    /\ LoadMainOver => (Len(ret.calls) = 1 /\ Len(sink) = 1)

\* the same when load.ts is loaded by another module
C30_Imported ==
  ~args.isMain =>
    /\ Len(ret.calls) <= 1
    /\ inflight <= 1
    /\ ret.listCommands <= 1
    /\ LoadMainOver => (Len(ret.calls) = 1 /\ Len(sink) = 1)

====
